---------------------------- MODULE Spec2Model ----------------------------
(***************************************************************************)
(* Model of the tropical-fish colour-band decoder (Go): the colour table,  *)
(* the capacitor type / voltage tables, the capacitor and resistor         *)
(* calculation engines and the band validators.                            *)
(*                                                                         *)
(* Go float64 values are modelled as exact decimals m * 10^e (records      *)
(* [m, e], kept normalised: m carries no trailing zero, zero is [0, 0]).   *)
(* Every number the engine produces is a product or sum of short decimal   *)
(* literals, and no engine threshold (10 pF, 1000, 10^6, 10^9) is hit by   *)
(* a product that is inexact in binary floating point, so comparisons in   *)
(* the model agree with the comparisons of the Go build.                   *)
(***************************************************************************)
EXTENDS Integers, Sequences, FiniteSets, TLC

VARIABLES pc, op, arg, ret

vars == <<pc, op, arg, ret>>

---------------------------------------------------------------------------
(* Bounds of the model                                                     *)

\* band counts handed to the engines range over 0..MaxBandCount
MaxBandCount == 7

---------------------------------------------------------------------------
(* float64 arithmetic as exact decimals                                    *)

RECURSIVE Pow10(_)
Pow10(n) == IF n <= 0 THEN 1 ELSE 10 * Pow10(n - 1)

RECURSIVE Norm(_)
Norm(x) ==
    IF x.m = 0 THEN [m |-> 0, e |-> 0]
    ELSE IF x.m % 10 = 0 THEN Norm([m |-> x.m \div 10, e |-> x.e + 1])
    ELSE x

\* the decimal literal m * 10^e
D(m, e) == Norm([m |-> m, e |-> e])

\* float64(n) for an int n
F(n) == Norm([m |-> n, e |-> 0])

Abs(n) == IF n < 0 THEN -n ELSE n

RECURSIVE Digits(_)
Digits(n) == IF n < 10 THEN 1 ELSE 1 + Digits(n \div 10)

Sign(x) == IF x.m > 0 THEN 1 ELSE IF x.m < 0 THEN -1 ELSE 0

Neg(x) == [m |-> -x.m, e |-> x.e]

MinInt(a, b) == IF a < b THEN a ELSE b

\* a < b for a, b > 0: by order of magnitude first, so that aligning the
\* mantissas never leaves the integer range
PosLess(a, b) ==
    LET ma == Digits(a.m) + a.e
        mb == Digits(b.m) + b.e
        e  == MinInt(a.e, b.e)
    IN  IF ma # mb THEN ma < mb
        ELSE a.m * Pow10(a.e - e) < b.m * Pow10(b.e - e)

DLess(a, b) ==
    IF Sign(a) # Sign(b) THEN Sign(a) < Sign(b)
    ELSE IF Sign(a) = 0 THEN FALSE
    ELSE IF Sign(a) = 1 THEN PosLess(a, b)
    ELSE PosLess(Neg(b), Neg(a))

DLeq(a, b) == ~DLess(b, a)

DGeq(a, b) == ~DLess(a, b)

DMul(a, b) == Norm([m |-> a.m * b.m, e |-> a.e + b.e])

DAdd(a, b) ==
    LET e == MinInt(a.e, b.e)
    IN  Norm([m |-> a.m * Pow10(a.e - e) + b.m * Pow10(b.e - e), e |-> e])

DSub(a, b) == DAdd(a, Neg(b))

\* x / 10^k
DDivPow10(x, k) == Norm([m |-> x.m, e |-> x.e - k])

Zero == F(0)

One == F(1)

---------------------------------------------------------------------------
(* colors.go: Color, colorMap                                              *)

ColorBlack  == 0
ColorBrown  == 1
ColorRed    == 2
ColorOrange == 3
ColorYellow == 4
ColorGreen  == 5
ColorBlue   == 6
ColorViolet == 7
ColorGrey   == 8
ColorWhite  == 9
ColorGold   == 10
ColorSilver == 11

Color == ColorBlack .. ColorSilver

ColorInfo(name, digit, mult, vd, vm, vt) ==
    [Name |-> name, Digit |-> digit, Multiplier |-> mult,
     ValidDigit |-> vd, ValidMult |-> vm, ValidTol |-> vt]

colorMap_greyTenth ==
    [c \in Color |->
        CASE c = ColorBlack  -> ColorInfo("Black",  0, F(1),        TRUE,  TRUE, TRUE)
          [] c = ColorBrown  -> ColorInfo("Brown",  1, F(10),       TRUE,  TRUE, TRUE)
          [] c = ColorRed    -> ColorInfo("Red",    2, F(100),      TRUE,  TRUE, TRUE)
          [] c = ColorOrange -> ColorInfo("Orange", 3, F(1000),     TRUE,  TRUE, TRUE)
          [] c = ColorYellow -> ColorInfo("Yellow", 4, F(10000),    TRUE,  TRUE, TRUE)
          [] c = ColorGreen  -> ColorInfo("Green",  5, F(100000),   TRUE,  TRUE, TRUE)
          [] c = ColorBlue   -> ColorInfo("Blue",   6, F(1000000),  TRUE,  TRUE, FALSE)
          [] c = ColorViolet -> ColorInfo("Violet", 7, F(10000000), TRUE,  TRUE, FALSE)
          [] c = ColorGrey   -> ColorInfo("Grey",   8, D(1, -1),    TRUE,  TRUE, TRUE)
          [] c = ColorWhite  -> ColorInfo("White",  9, D(1, -1),    TRUE,  TRUE, TRUE)
          [] c = ColorGold   -> ColorInfo("Gold",  -1, D(1, -1),    FALSE, TRUE, TRUE)
          [] c = ColorSilver -> ColorInfo("Silver", -1, D(1, -2),   FALSE, TRUE, TRUE)]

colorMap ==
    [c \in Color |->
        CASE c = ColorBlack  -> ColorInfo("Black",  0, F(1),        TRUE,  TRUE, TRUE)
          [] c = ColorBrown  -> ColorInfo("Brown",  1, F(10),       TRUE,  TRUE, TRUE)
          [] c = ColorRed    -> ColorInfo("Red",    2, F(100),      TRUE,  TRUE, TRUE)
          [] c = ColorOrange -> ColorInfo("Orange", 3, F(1000),     TRUE,  TRUE, TRUE)
          [] c = ColorYellow -> ColorInfo("Yellow", 4, F(10000),    TRUE,  TRUE, TRUE)
          [] c = ColorGreen  -> ColorInfo("Green",  5, F(100000),   TRUE,  TRUE, TRUE)
          [] c = ColorBlue   -> ColorInfo("Blue",   6, F(1000000),  TRUE,  TRUE, FALSE)
          [] c = ColorViolet -> ColorInfo("Violet", 7, F(10000000), TRUE,  TRUE, FALSE)
          [] c = ColorGrey   -> ColorInfo("Grey",   8, D(1, -2),    TRUE,  TRUE, TRUE)
          [] c = ColorWhite  -> ColorInfo("White",  9, D(1, -1),    TRUE,  TRUE, TRUE)
          [] c = ColorGold   -> ColorInfo("Gold",  -1, D(1, -1),    FALSE, TRUE, TRUE)
          [] c = ColorSilver -> ColorInfo("Silver", -1, D(1, -2),   FALSE, TRUE, TRUE)]

GetColorInfo(c) == colorMap[c]

ToleranceInfo(high, low, sym, abs) ==
    [PercentHigh |-> high, PercentLow |-> low, Symmetric |-> sym, AbsolutePF |-> abs]

\* Blue and Violet are not keys of the map
ToleranceColors ==
    {ColorBlack, ColorBrown, ColorRed, ColorOrange, ColorYellow, ColorGreen,
     ColorGold, ColorWhite, ColorSilver, ColorGrey}

toleranceMap ==
    [c \in ToleranceColors |->
        CASE c = ColorBlack  -> ToleranceInfo(F(20), F(20), TRUE,  Zero)
          [] c = ColorBrown  -> ToleranceInfo(F(1),  F(1),  TRUE,  D(1, -1))
          [] c = ColorRed    -> ToleranceInfo(F(2),  F(2),  TRUE,  D(25, -2))
          [] c = ColorOrange -> ToleranceInfo(F(3),  F(3),  TRUE,  Zero)
          [] c = ColorYellow -> ToleranceInfo(F(4),  F(4),  TRUE,  Zero)
          [] c = ColorGreen  -> ToleranceInfo(F(5),  F(5),  TRUE,  D(5, -1))
          [] c = ColorGold   -> ToleranceInfo(F(5),  F(5),  TRUE,  Zero)
          [] c = ColorWhite  -> ToleranceInfo(F(10), F(10), TRUE,  F(1))
          [] c = ColorSilver -> ToleranceInfo(F(10), F(10), TRUE,  Zero)
          [] c = ColorGrey   -> ToleranceInfo(F(80), F(20), FALSE, Zero)]

ZeroToleranceInfo == ToleranceInfo(Zero, Zero, FALSE, Zero)

\* (info, exists) of the Go map lookup
GetToleranceInfo(c) ==
    IF c \in DOMAIN toleranceMap
    THEN [info |-> toleranceMap[c], exists |-> TRUE]
    ELSE [info |-> ZeroToleranceInfo, exists |-> FALSE]

temperatureCoefficientMap ==
    [c \in ColorBrown .. ColorViolet |->
        CASE c = ColorBrown  -> -33
          [] c = ColorRed    -> -75
          [] c = ColorOrange -> -150
          [] c = ColorYellow -> -220
          [] c = ColorGreen  -> -330
          [] c = ColorBlue   -> -470
          [] c = ColorViolet -> -750]

GetTempCoefficient(c) ==
    IF c \in DOMAIN temperatureCoefficientMap
    THEN [coeff |-> temperatureCoefficientMap[c], exists |-> TRUE]
    ELSE [coeff |-> 0, exists |-> FALSE]

---------------------------------------------------------------------------
(* colors.go: ParseColor. A Go string is the sequence of its characters    *)

\* the characters of the Name fields of colorMap
Runes(name) ==
    CASE name = "Black"  -> <<"B", "l", "a", "c", "k">>
      [] name = "Brown"  -> <<"B", "r", "o", "w", "n">>
      [] name = "Red"    -> <<"R", "e", "d">>
      [] name = "Orange" -> <<"O", "r", "a", "n", "g", "e">>
      [] name = "Yellow" -> <<"Y", "e", "l", "l", "o", "w">>
      [] name = "Green"  -> <<"G", "r", "e", "e", "n">>
      [] name = "Blue"   -> <<"B", "l", "u", "e">>
      [] name = "Violet" -> <<"V", "i", "o", "l", "e", "t">>
      [] name = "Grey"   -> <<"G", "r", "e", "y">>
      [] name = "White"  -> <<"W", "h", "i", "t", "e">>
      [] name = "Gold"   -> <<"G", "o", "l", "d">>
      [] name = "Silver" -> <<"S", "i", "l", "v", "e", "r">>

UpperLetters == <<"A", "B", "C", "D", "E", "F", "G", "H", "I", "J", "K", "L", "M", "N", "O", "P", "Q", "R", "S", "T", "U", "V", "W", "X", "Y", "Z">>

LowerLetters == <<"a", "b", "c", "d", "e", "f", "g", "h", "i", "j", "k", "l", "m", "n", "o", "p", "q", "r", "s", "t", "u", "v", "w", "x", "y", "z">>

\* unicode.ToLower on the letters A-Z; other characters are unchanged
toLowerRune(ch) ==
    IF \E i \in 1 .. 26 : UpperLetters[i] = ch
    THEN LowerLetters[CHOOSE i \in 1 .. 26 : UpperLetters[i] = ch]
    ELSE ch

\* strings.ToLower
ToLower(str) == [i \in 1 .. Len(str) |-> toLowerRune(str[i])]

\* unicode.IsSpace on the characters of the inputs
isSpace(ch) == ch \in {" ", "\t", "\n", "\r"}

RECURSIVE trimLeft(_)
trimLeft(str) ==
    IF str # <<>> /\ isSpace(Head(str)) THEN trimLeft(Tail(str)) ELSE str

RECURSIVE trimRight(_)
trimRight(str) ==
    IF str # <<>> /\ isSpace(str[Len(str)])
    THEN trimRight(SubSeq(str, 1, Len(str) - 1))
    ELSE str

\* strings.TrimSpace
TrimSpace(str) == trimRight(trimLeft(str))

colorNameMap ==
    (<<"b", "l", "a", "c", "k">> :> ColorBlack) @@
    (<<"b", "r", "o", "w", "n">> :> ColorBrown) @@
    (<<"r", "e", "d">> :> ColorRed) @@
    (<<"o", "r", "a", "n", "g", "e">> :> ColorOrange) @@
    (<<"y", "e", "l", "l", "o", "w">> :> ColorYellow) @@
    (<<"g", "r", "e", "e", "n">> :> ColorGreen) @@
    (<<"b", "l", "u", "e">> :> ColorBlue) @@
    (<<"v", "i", "o", "l", "e", "t">> :> ColorViolet) @@
    (<<"g", "r", "e", "y">> :> ColorGrey) @@
    (<<"g", "r", "a", "y">> :> ColorGrey) @@
    (<<"w", "h", "i", "t", "e">> :> ColorWhite) @@
    (<<"g", "o", "l", "d">> :> ColorGold) @@
    (<<"s", "i", "l", "v", "e", "r">> :> ColorSilver)

\* lines 252-254 for the key the input was normalised to; a missing key gives
\* the zero Color, which is ColorBlack
lookupColorName(key) ==
    IF key \in DOMAIN colorNameMap
    THEN [color |-> colorNameMap[key], exists |-> TRUE]
    ELSE [color |-> ColorBlack, exists |-> FALSE]

\* the input looked up without lower-casing
ParseColor_caseSensitive(input) == lookupColorName(TrimSpace(input))

ParseColor(input) == lookupColorName(ToLower(TrimSpace(input)))

---------------------------------------------------------------------------
(* colors.go: AllColorNames; autocomplete.go: GetColorSuggestion,          *)
(* GetFullColorFromInput                                                   *)

AllColorNames ==
    <<Runes("Black"), Runes("Brown"), Runes("Red"), Runes("Orange"),
      Runes("Yellow"), Runes("Green"), Runes("Blue"), Runes("Violet"),
      Runes("Grey"), Runes("White"), Runes("Gold"), Runes("Silver")>>

\* strings.HasPrefix
HasPrefix(str, prefix) ==
    Len(prefix) <= Len(str) /\ SubSeq(str, 1, Len(prefix)) = prefix

notGoldSilver(name) == name # Runes("Gold") /\ name # Runes("Silver")

\* every name offered at every band
validColorNames_unfiltered(bandNum) == AllColorNames

\* lines 568-577: bands 1 and 2 are not offered Gold and Silver
validColorNames(bandNum) ==
    IF bandNum = 1 \/ bandNum = 2
    THEN SelectSeq(AllColorNames, notGoldSilver)
    ELSE AllColorNames

\* lines 580-586: the rest of the first name that starts with the input
RECURSIVE firstSuggestion(_, _)
firstSuggestion(names, input) ==
    IF names = <<>> THEN <<>>
    ELSE IF HasPrefix(ToLower(Head(names)), input)
    THEN SubSeq(Head(names), Len(input) + 1, Len(Head(names)))
    ELSE firstSuggestion(Tail(names), input)

GetColorSuggestion(input, bandNum) ==
    IF input = <<>> THEN <<>>
    ELSE firstSuggestion(validColorNames(bandNum), ToLower(TrimSpace(input)))

GetFullColorFromInput(input, suggestion) ==
    IF suggestion = <<>> THEN input ELSE input \o suggestion

---------------------------------------------------------------------------
(* types.go: CapacitorType, typeInfoMap, GetVoltageRatingFractional        *)

TypeJ == "J"
TypeK == "K"
TypeL == "L"
TypeM == "M"
TypeN == "N"

\* Voltages is a Go slice: Voltages[i] of the source is Voltages[i + 1] here
TypeInfo(t, name, desc, voltages) ==
    [Type |-> t, Name |-> name, Description |-> desc, Voltages |-> voltages]

typeInfoMap ==
    [t \in {TypeJ, TypeK, TypeL, TypeM, TypeN} |->
        CASE t = TypeJ -> TypeInfo(TypeJ, "Dipped Tantalum", "Type J (Dipped Tantalum)",
                                   <<3, 4, 6, 10, 15, 20, 25, 35, 50>>)
          [] t = TypeK -> TypeInfo(TypeK, "Mica", "Type K (Mica)",
                                   <<100, 200, 300, 400, 500, 600, 700, 800, 900, 1000, 2000>>)
          [] t = TypeL -> TypeInfo(TypeL, "Polyester / Polystyrene",
                                   "Type L (Polyester / Polystyrene)",
                                   <<100, 250, 400, 630>>)
          [] t = TypeM -> TypeInfo(TypeM, "Electrolytic (4-band style)",
                                   "Type M (Electrolytic 4-Band)",
                                   <<0, 2, 4, 6, 10, 16, 25, 40>>)
          [] t = TypeN -> TypeInfo(TypeN, "Electrolytic (3-band style)",
                                   "Type N (Electrolytic 3-Band)",
                                   <<3, 6, 0, 10, 15, 20, 25, 35>>)]

GetTypeInfo(capType) ==
    IF capType \in DOMAIN typeInfoMap
    THEN [info |-> typeInfoMap[capType], exists |-> TRUE]
    ELSE [info |-> TypeInfo("", "", "", <<>>), exists |-> FALSE]

\* the voltageMap literal of GetVoltageRatingFractional, keyed by digit
voltageMap_rounded ==
    [d \in 0 .. 8 |->
        CASE d = 0 -> Zero
          [] d = 1 -> F(2)
          [] d = 2 -> D(25, -1)
          [] d = 3 -> F(4)
          [] d = 4 -> D(63, -1)
          [] d = 5 -> F(10)
          [] d = 6 -> F(16)
          [] d = 7 -> F(25)
          [] d = 8 -> F(40)]

voltageMap ==
    [d \in 0 .. 8 |->
        CASE d = 0 -> Zero
          [] d = 1 -> D(16, -1)
          [] d = 2 -> D(25, -1)
          [] d = 3 -> F(4)
          [] d = 4 -> D(63, -1)
          [] d = 5 -> F(10)
          [] d = 6 -> F(16)
          [] d = 7 -> F(25)
          [] d = 8 -> F(40)]

NoVoltage == [voltage |-> Zero, valid |-> FALSE]

GetVoltageRatingFractional_noZeroCheck(capType, band5Color) ==
    LET typeInfo  == GetTypeInfo(capType)
        colorInfo == GetColorInfo(band5Color)
    IN  IF ~typeInfo.exists THEN NoVoltage
        ELSE IF colorInfo.Digit < 0 THEN NoVoltage
        ELSE IF capType = TypeM
             THEN IF colorInfo.Digit \in DOMAIN voltageMap
                  THEN [voltage |-> voltageMap[colorInfo.Digit], valid |-> TRUE]
                  ELSE NoVoltage
        ELSE IF capType = TypeN /\ colorInfo.Digit = 2
             THEN [voltage |-> D(63, -1), valid |-> TRUE]
        ELSE IF colorInfo.Digit >= Len(typeInfo.info.Voltages) THEN NoVoltage
        ELSE LET voltage == typeInfo.info.Voltages[colorInfo.Digit + 1]
             IN  [voltage |-> F(voltage), valid |-> TRUE]

GetVoltageRatingFractional(capType, band5Color) ==
    LET typeInfo  == GetTypeInfo(capType)
        colorInfo == GetColorInfo(band5Color)
    IN  IF ~typeInfo.exists THEN NoVoltage
        ELSE IF colorInfo.Digit < 0 THEN NoVoltage
        ELSE IF capType = TypeM
             THEN IF colorInfo.Digit \in DOMAIN voltageMap
                     /\ DLess(Zero, voltageMap[colorInfo.Digit])
                  THEN [voltage |-> voltageMap[colorInfo.Digit], valid |-> TRUE]
                  ELSE NoVoltage
        ELSE IF capType = TypeN /\ colorInfo.Digit = 2
             THEN [voltage |-> D(63, -1), valid |-> TRUE]
        ELSE IF colorInfo.Digit >= Len(typeInfo.info.Voltages) THEN NoVoltage
        ELSE LET voltage == typeInfo.info.Voltages[colorInfo.Digit + 1]
             IN  IF voltage = 0 THEN NoVoltage
                 ELSE [voltage |-> F(voltage), valid |-> TRUE]

---------------------------------------------------------------------------
(* calculator.go: CapacitorReading, CalculationResult, Calculate           *)

CapacitorReading(b1, b2, b3, b4, b5, n, t) ==
    [Band1 |-> b1, Band2 |-> b2, Band3 |-> b3, Band4 |-> b4, Band5 |-> b5,
     BandCount |-> n, CapType |-> t]

\* the zero CalculationResult of `&CalculationResult{Reading: reading}`.
\* RawMinPF / RawMaxPF are not fields of the Go struct: they record the
\* picofarad values MinValue / MaxValue hold at the end of the branches of
\* calculateTolerance, before lines 174-175 overwrite them with scaled values.
CalculationResult(reading) ==
    [CapacitancePF |-> Zero, CapacitanceValue |-> Zero, CapacitanceUnit |-> "",
     ToleranceType |-> "", TolerancePercent |-> Zero, ToleranceAbsolutePF |-> Zero,
     ToleranceSymmetric |-> FALSE, ToleranceHigh |-> Zero, ToleranceLow |-> Zero,
     MinValue |-> Zero, MaxValue |-> Zero, MinUnit |-> "", MaxUnit |-> "",
     RawMinPF |-> Zero, RawMaxPF |-> Zero,
     VoltageRating |-> Zero, VoltageValid |-> FALSE,
     TempCoefficient |-> 0, TempCoeffValid |-> FALSE,
     Reading |-> reading]

\* a nil *CalculationResult / *ResistorResult
NilResult == [nil |-> TRUE]

NoErr == ""

scaleCapacitance_exclusive(pF) ==
    IF DLess(F(1000000000), pF) THEN [value |-> DDivPow10(pF, 9), unit |-> "mF"]
    ELSE IF DLess(F(1000000), pF) THEN [value |-> DDivPow10(pF, 6), unit |-> "uF"]
    ELSE IF DLess(F(1000), pF) THEN [value |-> DDivPow10(pF, 3), unit |-> "nF"]
    ELSE [value |-> pF, unit |-> "pF"]

\* the unit "µF" is written "uF"
scaleCapacitance(pF) ==
    IF DGeq(pF, F(1000000000)) THEN [value |-> DDivPow10(pF, 9), unit |-> "mF"]
    ELSE IF DGeq(pF, F(1000000)) THEN [value |-> DDivPow10(pF, 6), unit |-> "uF"]
    ELSE IF DGeq(pF, F(1000)) THEN [value |-> DDivPow10(pF, 3), unit |-> "nF"]
    ELSE [value |-> pF, unit |-> "pF"]

\* line 141: result.CapacitancePF <= 10.0
smallCapacitor_strict(pF) == DLess(pF, F(10))

smallCapacitor(pF) == DLeq(pF, F(10))

\* lines 159-161: if result.MinValue < 0 { result.MinValue = 0 }
nonNegative_unclamped(v) == v

nonNegative(v) == IF DLess(v, Zero) THEN Zero ELSE v

\* CapacitancePF * (1 - PercentLow/100), CapacitancePF * (1 + PercentHigh/100)
percentMin_high(pF, tolInfo) == DMul(pF, DSub(One, DDivPow10(tolInfo.PercentHigh, 2)))

percentMin(pF, tolInfo) == DMul(pF, DSub(One, DDivPow10(tolInfo.PercentLow, 2)))

\* the maximum taken below the nominal value
percentMax_down(pF, tolInfo) == DMul(pF, DSub(One, DDivPow10(tolInfo.PercentHigh, 2)))

percentMax(pF, tolInfo) == DMul(pF, DAdd(One, DDivPow10(tolInfo.PercentHigh, 2)))

\* lines 136-171 for the entry tolInfo of toleranceMap: the tolerance fields
\* and the picofarad bounds
toleranceRange(result, tolInfo) ==
    IF smallCapacitor(result.CapacitancePF)
    THEN IF tolInfo.AbsolutePF = Zero
         THEN [result EXCEPT !.ToleranceSymmetric = tolInfo.Symmetric,
                             !.ToleranceHigh = tolInfo.PercentHigh,
                             !.ToleranceLow = tolInfo.PercentLow,
                             !.ToleranceType = "percentage",
                             !.ToleranceAbsolutePF = tolInfo.AbsolutePF,
                             !.TolerancePercent = tolInfo.PercentHigh,
                             !.RawMinPF = percentMin(result.CapacitancePF, tolInfo),
                             !.RawMaxPF = percentMax(result.CapacitancePF, tolInfo)]
         ELSE [result EXCEPT !.ToleranceSymmetric = tolInfo.Symmetric,
                             !.ToleranceHigh = tolInfo.PercentHigh,
                             !.ToleranceLow = tolInfo.PercentLow,
                             !.ToleranceType = "absolute",
                             !.ToleranceAbsolutePF = tolInfo.AbsolutePF,
                             !.RawMinPF = nonNegative(DSub(result.CapacitancePF,
                                                           tolInfo.AbsolutePF)),
                             !.RawMaxPF = DAdd(result.CapacitancePF, tolInfo.AbsolutePF)]
    ELSE [result EXCEPT !.ToleranceSymmetric = tolInfo.Symmetric,
                        !.ToleranceHigh = tolInfo.PercentHigh,
                        !.ToleranceLow = tolInfo.PercentLow,
                        !.ToleranceType = "percentage",
                        !.TolerancePercent = tolInfo.PercentHigh,
                        !.RawMinPF = percentMin(result.CapacitancePF, tolInfo),
                        !.RawMaxPF = percentMax(result.CapacitancePF, tolInfo)]

\* lines 174-175: MinValue, MinUnit = smin and MaxValue, MaxUnit = smax
scaledRange(result, smin, smax) ==
    [result EXCEPT !.MinValue = smin.value, !.MinUnit = smin.unit,
                   !.MaxValue = smax.value, !.MaxUnit = smax.unit]

\* lines 174-177 for the result r that carries the picofarad bounds
toleranceScaled(r) ==
    [result |-> scaledRange(r, scaleCapacitance(r.RawMinPF), scaleCapacitance(r.RawMaxPF)),
     err |-> NoErr]

\* lines 132-177 for the outcome tol of the toleranceMap lookup
toleranceFor(result, tol) ==
    IF ~tol.exists
    THEN [result |-> result, err |-> "invalid tolerance color for band 4"]
    ELSE toleranceScaled(toleranceRange(result, tol.info))

\* returns (result, err); result is the updated *CalculationResult
calculateTolerance(result) ==
    toleranceFor(result, GetToleranceInfo(result.Reading.Band4))

\* line 84: reading.BandCount >= 4 && reading.Band5 != ColorBlack
voltageLookedUp_anyColor(reading) == reading.BandCount >= 4

voltageLookedUp(reading) == reading.BandCount >= 4 /\ reading.Band5 # ColorBlack

\* line 91: reading.BandCount == 5
tempCoeffLookedUp_fromFour(reading) == reading.BandCount >= 4

tempCoeffLookedUp(reading) == reading.BandCount = 5

\* lines 72-73: baseValue * info3.Multiplier
capacitancePF(info1, info2, info3) ==
    DMul(F(info1.Digit * 10 + info2.Digit), info3.Multiplier)

\* lines 73-76: CapacitancePF and its scaled value and unit
withCapacitance(result, pF, scaled) ==
    [result EXCEPT !.CapacitancePF = pF,
                   !.CapacitanceValue = scaled.value,
                   !.CapacitanceUnit = scaled.unit]

\* lines 84-88 for the outcome v of the voltage lookup
withVoltage(result, v) ==
    IF voltageLookedUp(result.Reading)
    THEN [result EXCEPT !.VoltageRating = v.voltage, !.VoltageValid = v.valid]
    ELSE result

\* lines 91-95 for the outcome tc of the coefficient lookup
withTempCoefficient(result, tc) ==
    IF tempCoeffLookedUp(result.Reading)
    THEN [result EXCEPT !.TempCoefficient = tc.coeff, !.TempCoeffValid = tc.exists]
    ELSE result

\* lines 79-97 for the outcome tol of calculateTolerance
calculateRatings(reading, tol) ==
    IF tol.err # NoErr
    THEN [result |-> NilResult, err |-> tol.err]
    ELSE [result |->
             withTempCoefficient(
                 withVoltage(tol.result,
                             GetVoltageRatingFractional(reading.CapType, reading.Band5)),
                 GetTempCoefficient(reading.Band5)),
          err |-> NoErr]

\* lines 72-97 for a reading whose bands 1-3 passed the checks
calculateValue(reading, pF) ==
    calculateRatings(reading,
        calculateTolerance(
            withCapacitance(CalculationResult(reading), pF, scaleCapacitance(pF))))

\* the digit check of band 1 only
calculateWith_firstDigitOnly(reading, info1, info2, info3) ==
    IF ~info1.ValidDigit
    THEN [result |-> NilResult, err |-> "invalid digit colors for bands 1 or 2"]
    ELSE IF ~info3.ValidMult
    THEN [result |-> NilResult, err |-> "invalid multiplier color for band 3"]
    ELSE calculateValue(reading, capacitancePF(info1, info2, info3))

\* lines 64-97 for the colorMap entries of bands 1-3
calculateWith(reading, info1, info2, info3) ==
    IF ~info1.ValidDigit \/ ~info2.ValidDigit
    THEN [result |-> NilResult, err |-> "invalid digit colors for bands 1 or 2"]
    ELSE IF ~info3.ValidMult
    THEN [result |-> NilResult, err |-> "invalid multiplier color for band 3"]
    ELSE calculateValue(reading, capacitancePF(info1, info2, info3))

Calculate(reading) ==
    calculateWith(reading, GetColorInfo(reading.Band1), GetColorInfo(reading.Band2),
                  GetColorInfo(reading.Band3))

---------------------------------------------------------------------------
(* resistor.go: ResistorReading, ResistorResult, CalculateResistor         *)

ResistorReading(b1, b2, b3, b4, b5, b6, n) ==
    [Band1 |-> b1, Band2 |-> b2, Band3 |-> b3, Band4 |-> b4, Band5 |-> b5,
     Band6 |-> b6, BandCount |-> n]

ResistorResult(reading) ==
    [ResistanceOhms |-> Zero, ResistanceValue |-> Zero, ResistanceUnit |-> "",
     TolerancePercent |-> Zero,
     MinValue |-> Zero, MaxValue |-> Zero, MinUnit |-> "", MaxUnit |-> "",
     RawMinOhms |-> Zero, RawMaxOhms |-> Zero,
     TempCoefficient |-> 0, TempCoeffValid |-> FALSE,
     Reading |-> reading]

ResistorToleranceColors ==
    {ColorBrown, ColorRed, ColorGreen, ColorBlue, ColorViolet, ColorGrey,
     ColorGold, ColorSilver}

resistorToleranceMap ==
    [c \in ResistorToleranceColors |->
        CASE c = ColorBrown  -> [Percent |-> F(1),     Name |-> "+-1% (precision)"]
          [] c = ColorRed    -> [Percent |-> F(2),     Name |-> "+-2% (precision)"]
          [] c = ColorGreen  -> [Percent |-> D(5, -1), Name |-> "+-0.5% (high precision)"]
          [] c = ColorBlue   -> [Percent |-> D(25, -2), Name |-> "+-0.25% (high precision)"]
          [] c = ColorViolet -> [Percent |-> D(1, -1), Name |-> "+-0.1% (ultra precision)"]
          [] c = ColorGrey   -> [Percent |-> D(5, -2), Name |-> "+-0.05% (ultra precision)"]
          [] c = ColorGold   -> [Percent |-> F(5),     Name |-> "+-5% (standard)"]
          [] c = ColorSilver -> [Percent |-> F(10),    Name |-> "+-10% (standard)"]]

resistorTempCoefficientMap ==
    [c \in ColorBlack .. ColorGrey |->
        CASE c = ColorBlack  -> 250
          [] c = ColorBrown  -> 100
          [] c = ColorRed    -> 50
          [] c = ColorOrange -> 15
          [] c = ColorYellow -> 25
          [] c = ColorGreen  -> 20
          [] c = ColorBlue   -> 10
          [] c = ColorViolet -> 5
          [] c = ColorGrey   -> 1]

\* the capacitor multipliers of colorMap used for resistors
resistorMultiplierMap_capacitor == [c \in Color |-> colorMap[c].Multiplier]

resistorMultiplierMap ==
    [c \in Color |->
        CASE c = ColorBlack  -> F(1)
          [] c = ColorBrown  -> F(10)
          [] c = ColorRed    -> F(100)
          [] c = ColorOrange -> F(1000)
          [] c = ColorYellow -> F(10000)
          [] c = ColorGreen  -> F(100000)
          [] c = ColorBlue   -> F(1000000)
          [] c = ColorViolet -> F(10000000)
          [] c = ColorGrey   -> F(100000000)
          [] c = ColorWhite  -> F(1000000000)
          [] c = ColorGold   -> D(1, -1)
          [] c = ColorSilver -> D(1, -2)]

GetResistorMultiplier(c) ==
    IF c \in DOMAIN resistorMultiplierMap
    THEN [mult |-> resistorMultiplierMap[c], exists |-> TRUE]
    ELSE [mult |-> Zero, exists |-> FALSE]

GetResistorTolerance(c) ==
    IF c \in DOMAIN resistorToleranceMap
    THEN [info |-> resistorToleranceMap[c], exists |-> TRUE]
    ELSE [info |-> [Percent |-> Zero, Name |-> ""], exists |-> FALSE]

GetResistorTempCoefficient(c) ==
    IF c \in DOMAIN resistorTempCoefficientMap
    THEN [coeff |-> resistorTempCoefficientMap[c], exists |-> TRUE]
    ELSE [coeff |-> 0, exists |-> FALSE]

\* the thresholds taken as exclusive
scaleResistance_exclusive(ohms) ==
    IF DLess(F(1000000000), ohms) THEN [value |-> DDivPow10(ohms, 9), unit |-> "GOhm"]
    ELSE IF DLess(F(1000000), ohms) THEN [value |-> DDivPow10(ohms, 6), unit |-> "MOhm"]
    ELSE IF DLess(F(1000), ohms) THEN [value |-> DDivPow10(ohms, 3), unit |-> "kOhm"]
    ELSE [value |-> ohms, unit |-> "Ohm"]

\* the unit strings are written without the omega sign
scaleResistance(ohms) ==
    IF DGeq(ohms, F(1000000000)) THEN [value |-> DDivPow10(ohms, 9), unit |-> "GOhm"]
    ELSE IF DGeq(ohms, F(1000000)) THEN [value |-> DDivPow10(ohms, 6), unit |-> "MOhm"]
    ELSE IF DGeq(ohms, F(1000)) THEN [value |-> DDivPow10(ohms, 3), unit |-> "kOhm"]
    ELSE [value |-> ohms, unit |-> "Ohm"]

\* lines 332, 345, 358: the base value of the digit bands
resistorBaseValue(reading, info1, info2, info3) ==
    IF reading.BandCount = 4
    THEN F(info1.Digit * 10 + info2.Digit)
    ELSE F(info1.Digit * 100 + info2.Digit * 10 + info3.Digit)

\* bands 1 and 2 checked at every band count
resistorDigitsValid_twoBands(reading, info1, info2, info3) ==
    info1.ValidDigit /\ info2.ValidDigit

\* lines 328, 341, 354: the digit checks of the band count
resistorDigitsValid(reading, info1, info2, info3) ==
    IF reading.BandCount = 4
    THEN info1.ValidDigit /\ info2.ValidDigit
    ELSE info1.ValidDigit /\ info2.ValidDigit /\ info3.ValidDigit

\* lines 333, 346, 359
multiplierColor(reading) == IF reading.BandCount = 4 THEN reading.Band3 ELSE reading.Band4

\* lines 383-386
toleranceColor(reading) == IF reading.BandCount >= 5 THEN reading.Band5 ELSE reading.Band4

\* the coefficient looked up from 5 bands on
withResistorTempCoefficient_fromFive(result, tc) ==
    IF result.Reading.BandCount >= 5
    THEN [result EXCEPT !.TempCoefficient = tc.coeff, !.TempCoeffValid = tc.exists]
    ELSE result

\* lines 362-364 for the outcome tc of the coefficient lookup (6 bands only)
withResistorTempCoefficient(result, tc) ==
    IF result.Reading.BandCount = 6
    THEN [result EXCEPT !.TempCoefficient = tc.coeff, !.TempCoeffValid = tc.exists]
    ELSE result

\* lines 377-380: ResistanceOhms and its scaled value and unit
withResistance(result, ohms, scaled) ==
    [result EXCEPT !.ResistanceOhms = ohms,
                   !.ResistanceValue = scaled.value,
                   !.ResistanceUnit = scaled.unit]

\* the minimum taken at twice the percentage
resistorRange_doubleLow(result, percent) ==
    [result EXCEPT !.TolerancePercent = percent,
                   !.RawMinOhms = DMul(result.ResistanceOhms,
                                       DSub(One, DDivPow10(DMul(F(2), percent), 2))),
                   !.RawMaxOhms = DMul(result.ResistanceOhms,
                                       DAdd(One, DDivPow10(percent, 2)))]

\* lines 393-397: the tolerance and the bounds in ohms
resistorRange(result, percent) ==
    [result EXCEPT !.TolerancePercent = percent,
                   !.RawMinOhms = DMul(result.ResistanceOhms,
                                       DSub(One, DDivPow10(percent, 2))),
                   !.RawMaxOhms = DMul(result.ResistanceOhms,
                                       DAdd(One, DDivPow10(percent, 2)))]

\* lines 400-401 for the result r that carries the bounds in ohms
resistorRangeScaled(r) ==
    scaledRange(r, scaleResistance(r.RawMinOhms), scaleResistance(r.RawMaxOhms))

\* lines 388-403 for the outcome tol of the tolerance lookup
resistorTolerance(result, tol) ==
    IF ~tol.exists
    THEN [result |-> NilResult, err |-> "invalid tolerance color"]
    ELSE [result |-> resistorRangeScaled(resistorRange(result, tol.info.Percent)),
          err |-> NoErr]

\* lines 377-403 for the base value and the multiplier
resistorValue(reading, ohms) ==
    resistorTolerance(
        withResistance(
            withResistorTempCoefficient(ResistorResult(reading),
                                        GetResistorTempCoefficient(reading.Band6)),
            ohms, scaleResistance(ohms)),
        GetResistorTolerance(toleranceColor(reading)))

\* lines 371-403 for the outcome mul of the multiplier lookup
resistorMultiplied(reading, baseValue, mul) ==
    IF ~mul.exists
    THEN [result |-> NilResult, err |-> "invalid multiplier color"]
    ELSE resistorValue(reading, DMul(baseValue, mul.mult))

\* lines 322-403 for the colorMap entries of bands 1-3
calculateResistorWith(reading, info1, info2, info3) ==
    IF reading.BandCount \notin {4, 5, 6}
    THEN [result |-> NilResult, err |-> "invalid band count: %d (must be 4, 5, or 6)"]
    ELSE IF ~resistorDigitsValid(reading, info1, info2, info3)
    THEN [result |-> NilResult,
          err |-> IF reading.BandCount = 4 THEN "invalid digit colors for bands 1 or 2"
                  ELSE "invalid digit colors for bands 1, 2, or 3"]
    ELSE resistorMultiplied(reading, resistorBaseValue(reading, info1, info2, info3),
                            GetResistorMultiplier(multiplierColor(reading)))

CalculateResistor(reading) ==
    calculateResistorWith(reading, GetColorInfo(reading.Band1),
                          GetColorInfo(reading.Band2), GetColorInfo(reading.Band3))

---------------------------------------------------------------------------
(* validation.go: ValidationError, ValidateBand1..5, ValidateReading,       *)
(* ValidateBandCount                                                       *)

ValidationError(bandNumber, message) == [BandNumber |-> bandNumber, Message |-> message]

\* a nil error
NoValidationError == ValidationError(0, "")

ValidateBand1(color) ==
    IF ~GetColorInfo(color).ValidDigit
    THEN ValidationError(1, "%s is not valid for first digit band (must be Black-White, 0-9)")
    ELSE NoValidationError

ValidateBand2(color) ==
    IF ~GetColorInfo(color).ValidDigit
    THEN ValidationError(2, "%s is not valid for second digit band (must be Black-White, 0-9)")
    ELSE NoValidationError

ValidateBand3(color) ==
    IF ~GetColorInfo(color).ValidMult
    THEN ValidationError(3, "%s is not valid for multiplier band")
    ELSE NoValidationError

\* lines 251-268 for the outcome tol of the tolerance lookup
validateTolerance(tol, pF) ==
    IF ~tol.exists
    THEN ValidationError(4, "%s is not valid for tolerance band")
    ELSE IF DLeq(pF, F(10)) /\ tol.info.AbsolutePF = Zero
    THEN ValidationError(4, "%s tolerance not typically used for capacitors <=10pF (use Brown, Red, Green, or White for absolute tolerance)")
    ELSE NoValidationError

ValidateBand4(color, pF) == validateTolerance(GetToleranceInfo(color), pF)

\* the temperature coefficient required at 5 bands
ValidateBand5_needsTempCoefficient(color, capType, bandCount) ==
    IF bandCount < 4 THEN NoValidationError
    ELSE IF ~GetVoltageRatingFractional(capType, color).valid
         THEN ValidationError(5, "%s is not a valid voltage code for %s capacitors")
         ELSE IF bandCount = 5 /\ ~GetTempCoefficient(color).exists
              THEN ValidationError(5, "%s has no temperature coefficient")
              ELSE NoValidationError

ValidateBand5(color, capType, bandCount) ==
    IF bandCount < 4 THEN NoValidationError
    ELSE IF ~GetVoltageRatingFractional(capType, color).valid
         THEN ValidationError(5, "%s is not a valid voltage code for %s capacitors")
         ELSE NoValidationError

\* lines 333-338: band 5 of a reading whose bands 1-4 passed
validateRating(reading) ==
    IF reading.BandCount >= 4
    THEN ValidateBand5(reading.Band5, reading.CapType, reading.BandCount)
    ELSE NoValidationError

\* lines 328-338 for the outcome err4 of ValidateBand4
validateFrom4(reading, err4) ==
    IF err4 # NoValidationError THEN err4 ELSE validateRating(reading)

\* lines 322-338 for the colorMap entries of bands 1-3
validateFrom3(reading, info1, info2, info3) ==
    validateFrom4(reading,
                  ValidateBand4(reading.Band4, capacitancePF(info1, info2, info3)))

\* lines 308-319 for the outcomes of ValidateBand1, ValidateBand2, ValidateBand3
validateDigits(reading, err1, err2, err3) ==
    IF err1 # NoValidationError THEN err1
    ELSE IF err2 # NoValidationError THEN err2
    ELSE IF err3 # NoValidationError THEN err3
    ELSE validateFrom3(reading, GetColorInfo(reading.Band1),
                       GetColorInfo(reading.Band2), GetColorInfo(reading.Band3))

ValidateReading(reading) ==
    validateDigits(reading, ValidateBand1(reading.Band1), ValidateBand2(reading.Band2),
                   ValidateBand3(reading.Band3))

ValidateBandCount(count) ==
    IF count < 3 \/ count > 5 THEN "band count must be 3, 4, or 5" ELSE NoErr

ValidateResistorBand1(color) ==
    IF ~GetColorInfo(color).ValidDigit
    THEN ValidationError(1, "%s is not valid for first digit band (must be Black-White, 0-9)")
    ELSE NoValidationError

ValidateResistorBand2(color) ==
    IF ~GetColorInfo(color).ValidDigit
    THEN ValidationError(2, "%s is not valid for second digit band (must be Black-White, 0-9)")
    ELSE NoValidationError

ValidateResistorBand3(color) ==
    IF ~GetColorInfo(color).ValidDigit
    THEN ValidationError(3, "%s is not valid for third digit band (must be Black-White, 0-9)")
    ELSE NoValidationError

ValidateResistorMultiplier(color, bandNum) ==
    IF ~GetResistorMultiplier(color).exists
    THEN ValidationError(bandNum, "%s is not valid for multiplier band")
    ELSE NoValidationError

ValidateResistorTolerance(color, bandNum) ==
    IF ~GetResistorTolerance(color).exists
    THEN ValidationError(bandNum, "%s is not valid for tolerance band")
    ELSE NoValidationError

ValidateResistorTempCoeff(color) ==
    IF ~GetResistorTempCoefficient(color).exists
    THEN ValidationError(6, "%s is not valid for temperature coefficient band")
    ELSE NoValidationError

---------------------------------------------------------------------------
(* The session: model, and handleBandInputInput for the Enter key          *)

ComponentCapacitor == 0
ComponentResistor == 1

screenBandInput == 4
screenReview == 5

\* an error made by fmt.Errorf, which has no band number
Errorf(message) == ValidationError(0, message)

\* lines 29-34: the readings of initialModel
initialCapacitorReading ==
    CapacitorReading(ColorBlack, ColorBlack, ColorBlack, ColorBlack, ColorBlack, 5, "")

initialResistorReading ==
    ResistorReading(ColorBlack, ColorBlack, ColorBlack, ColorBlack, ColorBlack,
                    ColorBlack, 4)

\* the model of the session with the fields a selection screen has set; the
\* other fields are as initialModel leaves them. results counts the results
\* that Calculate and CalculateResistor have allocated: it gives each result
\* its address
SessionModel(screen, input, currentBand, componentType, capReading, resReading) ==
    [screen |-> screen, input |-> input, suggestion |-> <<>>,
     err |-> NoValidationError, successMsg |-> "", quitting |-> FALSE,
     currentBand |-> currentBand,
     componentType |-> componentType, capacitorReading |-> capReading,
     resistorReading |-> resReading,
     capacitorResult |-> NilResult, resistorResult |-> NilResult,
     editBandIndex |-> 0, currentNote |-> <<>>, history |-> <<>>,
     selectedFile |-> "", results |-> 0]

\* the assignment to the band of the reading that the switch case makes
withBand(reading, band, color) ==
    CASE band = 1 -> [reading EXCEPT !.Band1 = color]
      [] band = 2 -> [reading EXCEPT !.Band2 = color]
      [] band = 3 -> [reading EXCEPT !.Band3 = color]
      [] band = 4 -> [reading EXCEPT !.Band4 = color]
      [] band = 5 -> [reading EXCEPT !.Band5 = color]
      [] band = 6 -> [reading EXCEPT !.Band6 = color]

\* lines 296-302: the capacitance of the stored bands 1-3
storedCapacitancePF(reading) ==
    capacitancePF(GetColorInfo(reading.Band1), GetColorInfo(reading.Band2),
                  GetColorInfo(reading.Band3))

\* lines 279-312: validationErr of the capacitor switch
capacitorBandError(reading, band, color) ==
    CASE band = 1 -> ValidateBand1(color)
      [] band = 2 -> ValidateBand2(color)
      [] band = 3 -> ValidateBand3(color)
      [] band = 4 -> ValidateBand4(color, storedCapacitancePF(reading))
      [] band = 5 -> ValidateBand5(color, reading.CapType, reading.BandCount)
      [] OTHER    -> NoValidationError

\* lines 316-365: validationErr of the resistor switch
resistorBandError(reading, band, color) ==
    CASE band = 1 -> ValidateResistorBand1(color)
      [] band = 2 -> ValidateResistorBand2(color)
      [] band = 3 -> IF reading.BandCount = 4 THEN ValidateResistorMultiplier(color, 3)
                     ELSE ValidateResistorBand3(color)
      [] band = 4 -> IF reading.BandCount = 4 THEN ValidateResistorTolerance(color, 4)
                     ELSE ValidateResistorMultiplier(color, 4)
      [] band = 5 -> ValidateResistorTolerance(color, 5)
      [] band = 6 -> ValidateResistorTempCoeff(color)
      [] OTHER    -> NoValidationError

\* lines 373-385: the next band, or the review screen after the last band
bandInputAdvance(m, bandCount) ==
    IF m.currentBand < bandCount
    THEN [m EXCEPT !.currentBand = @ + 1, !.input = <<>>, !.suggestion = <<>>,
                   !.err = NoValidationError]
    ELSE [m EXCEPT !.screen = screenReview, !.input = <<>>, !.suggestion = <<>>,
                   !.err = NoValidationError]

\* a handler that assigns the band before it looks at the error
bandInputValidated_storesFirst(m, validationErr, stored, bandCount) ==
    IF validationErr # NoValidationError
    THEN [stored EXCEPT !.err = validationErr]
    ELSE bandInputAdvance(stored, bandCount)

\* lines 368-385 for the outcome validationErr of the switch; stored is the
\* model with the colour assigned to the band
bandInputValidated(m, validationErr, stored, bandCount) ==
    IF validationErr # NoValidationError
    THEN [m EXCEPT !.err = validationErr]
    ELSE bandInputAdvance(stored, bandCount)

\* lines 275-385 for the colour that ParseColor found; a band that no case
\* of the switch names stores nothing
bandInputColor(m, color) ==
    IF m.componentType = ComponentCapacitor
    THEN bandInputValidated(m,
             capacitorBandError(m.capacitorReading, m.currentBand, color),
             IF m.currentBand \in 1 .. 5
             THEN [m EXCEPT !.capacitorReading = withBand(@, m.currentBand, color)]
             ELSE m,
             m.capacitorReading.BandCount)
    ELSE IF m.componentType = ComponentResistor
    THEN bandInputValidated(m,
             resistorBandError(m.resistorReading, m.currentBand, color),
             IF m.currentBand \in 1 .. 6
             THEN [m EXCEPT !.resistorReading = withBand(@, m.currentBand, color)]
             ELSE m,
             m.resistorReading.BandCount)
    ELSE bandInputValidated(m, NoValidationError, m, 0)

\* lines 267-385 for the outcome parsed of ParseColor
bandInputParsed(m, parsed) ==
    IF ~parsed.exists
    THEN [m EXCEPT !.err = Errorf("invalid color: '%s' - please enter a valid color name")]
    ELSE bandInputColor(m, parsed.color)

\* handleBandInputInput for the key "enter": lines 266-385; with an empty
\* input no branch of the handler applies
handleBandInputEnter(m) ==
    IF m.input # <<>> THEN bandInputParsed(m, ParseColor(m.input)) ELSE m

---------------------------------------------------------------------------
(* The user interface: the screens and their key handlers                  *)

screenWelcome == 0
screenComponentSelection == 1
screenTypeSelection == 2
screenBandCountSelection == 3
screenResults == 6
screenNoteInput == 7
screenEdit == 8
screenFilePicker == 9

\* line 620: the longest note
NoteLimit == 200

\* the names of the keys that are not a single character
ControlKeys == {"enter", "esc", "tab", "backspace", "delete", "ctrl+c"}

\* len(key) == 1
singleChar(key) == key \notin ControlKeys

\* strings.ToLower(key)
lowerKey(key) == IF singleChar(key) THEN toLowerRune(key) ELSE key

\* unicode.ToUpper on the letters a-z
toUpperRune(ch) ==
    IF \E i \in 1 .. 26 : LowerLetters[i] = ch
    THEN UpperLetters[CHOOSE i \in 1 .. 26 : LowerLetters[i] = ch]
    ELSE ch

\* strings.ToUpper
ToUpper(str) == [i \in 1 .. Len(str) |-> toUpperRune(str[i])]

\* types.go: ParseCapacitorType
ParseCapacitorType(input) ==
    IF \E t \in {TypeJ, TypeK, TypeL, TypeM, TypeN} : ToUpper(TrimSpace(input)) = <<t>>
    THEN [capType |-> ToUpper(TrimSpace(input))[1], valid |-> TRUE]
    ELSE [capType |-> "", valid |-> FALSE]

\* a *CalculationResult or *ResistorResult: the address of the allocation and
\* the value it holds; nil is NilResult
Pointer(addr, value) == [addr |-> addr, value |-> value]

\* export.go: ComponentEntry
ComponentEntry(componentType, capacitorResult, resistorResult, note) ==
    [ComponentType |-> componentType, CapacitorResult |-> capacitorResult,
     ResistorResult |-> resistorResult, Note |-> note]

\* the entry of the current result, lines 463-468, 480-485, 586-591, 596-601
currentEntry(m) ==
    ComponentEntry(m.componentType, m.capacitorResult, m.resistorResult, m.currentNote)

initialModel ==
    SessionModel(screenWelcome, <<>>, 1, ComponentCapacitor, initialCapacitorReading,
                 initialResistorReading)

\* m.input[:len(m.input)-1]
dropLast(input) == SubSeq(input, 1, Len(input) - 1)

\* the branches for backspace, delete and a single character that the
\* selection screens and the edit screen share
editInput(m, key) ==
    IF key = "backspace" \/ key = "delete"
    THEN IF Len(m.input) > 0 THEN [m EXCEPT !.input = dropLast(@)] ELSE m
    ELSE IF singleChar(key) THEN [m EXCEPT !.input = Append(@, key)]
    ELSE m

quit(m) == [m EXCEPT !.quitting = TRUE]

handleWelcomeInput(m, key) ==
    IF key = "enter" \/ key = " "
    THEN [m EXCEPT !.screen = screenComponentSelection, !.input = <<>>,
                   !.err = NoValidationError]
    ELSE IF key = "q" THEN quit(m)
    ELSE m

\* the selection is read from the key that was pressed, not from the input
handleComponentSelectionInput(m, key) ==
    IF key = "enter" /\ m.input # <<>>
    THEN IF lowerKey(key) = "c"
         THEN [m EXCEPT !.componentType = ComponentCapacitor,
                        !.screen = screenTypeSelection, !.input = <<>>,
                        !.err = NoValidationError]
         ELSE IF lowerKey(key) = "r"
         THEN [m EXCEPT !.componentType = ComponentResistor,
                        !.screen = screenBandCountSelection, !.input = <<>>,
                        !.err = NoValidationError]
         ELSE [m EXCEPT !.err = Errorf("invalid selection: please enter C for Capacitor or R for Resistor")]
    ELSE editInput(m, key)

\* lines 189-197 for the outcome parsed of ParseCapacitorType
typeSelected(m, parsed) ==
    IF parsed.valid
    THEN [m EXCEPT !.capacitorReading.CapType = parsed.capType,
                   !.screen = screenBandCountSelection, !.input = <<>>,
                   !.err = NoValidationError]
    ELSE [m EXCEPT !.err = Errorf("invalid type: please enter J, K, L, M, or N")]

handleTypeSelectionInput(m, key) ==
    IF key = "enter" /\ m.input # <<>>
    THEN typeSelected(m, ParseCapacitorType(m.input))
    ELSE editInput(m, key)

\* lines 212-220
parsedBandCount(input) ==
    CASE input = <<"3">> -> 3
      [] input = <<"4">> -> 4
      [] input = <<"5">> -> 5
      [] input = <<"6">> -> 6
      [] OTHER -> 0

\* lines 237-240
startBandInput(m) ==
    [m EXCEPT !.screen = screenBandInput, !.currentBand = 1, !.input = <<>>,
              !.err = NoValidationError]

\* lines 222-240 for one of the band counts 3, 4, 5, 6
bandCountChosen(m, bandCount) ==
    IF m.componentType = ComponentCapacitor
    THEN IF bandCount < 3 \/ bandCount > 5
         THEN [m EXCEPT !.err = Errorf("invalid band count for capacitor: please enter 3, 4, or 5")]
         ELSE startBandInput([m EXCEPT !.capacitorReading.BandCount = bandCount])
    ELSE IF m.componentType = ComponentResistor
    THEN IF bandCount < 4 \/ bandCount > 6
         THEN [m EXCEPT !.err = Errorf("invalid band count for resistor: please enter 4, 5, or 6")]
         ELSE startBandInput([m EXCEPT !.resistorReading.BandCount = bandCount])
    ELSE startBandInput(m)

handleBandCountInput(m, key) ==
    IF key = "enter" /\ m.input # <<>>
    THEN IF parsedBandCount(m.input) # 0
         THEN bandCountChosen(m, parsedBandCount(m.input))
         ELSE IF m.componentType = ComponentCapacitor
         THEN [m EXCEPT !.err = Errorf("invalid band count: please enter 3, 4, or 5")]
         ELSE [m EXCEPT !.err = Errorf("invalid band count: please enter 4, 5, or 6")]
    ELSE editInput(m, key)

\* lines 388-390 and 393-395: the new input and its suggestion
withInput(m, input) ==
    [m EXCEPT !.input = input, !.suggestion = GetColorSuggestion(input, m.currentBand)]

handleBandInputInput(m, key) ==
    IF key = "tab"
    THEN IF m.suggestion # <<>>
         THEN [m EXCEPT !.input = GetFullColorFromInput(m.input, m.suggestion),
                        !.suggestion = <<>>]
         ELSE m
    ELSE IF key = "enter" /\ m.input # <<>> THEN handleBandInputEnter(m)
    ELSE IF key = "backspace" \/ key = "delete"
    THEN IF Len(m.input) > 0 THEN withInput(m, dropLast(m.input)) ELSE m
    ELSE IF singleChar(key) THEN withInput(m, Append(m.input, key))
    ELSE m

\* lines 406-412 and 422-423 for the outcome calc of Calculate
reviewCapacitor(m, calc) ==
    IF calc.err # NoErr THEN [m EXCEPT !.err = Errorf(calc.err)]
    ELSE [m EXCEPT !.capacitorResult = Pointer(m.results + 1, calc.result),
                   !.resistorResult = NilResult, !.results = @ + 1,
                   !.screen = screenResults, !.err = NoValidationError]

\* lines 414-423 for the outcome calc of CalculateResistor
reviewResistor(m, calc) ==
    IF calc.err # NoErr THEN [m EXCEPT !.err = Errorf(calc.err)]
    ELSE [m EXCEPT !.resistorResult = Pointer(m.results + 1, calc.result),
                   !.capacitorResult = NilResult, !.results = @ + 1,
                   !.screen = screenResults, !.err = NoValidationError]

handleReviewInput(m, key) ==
    IF lowerKey(key) = "enter" \/ lowerKey(key) = " "
    THEN IF m.componentType = ComponentCapacitor
         THEN reviewCapacitor(m, Calculate(m.capacitorReading))
         ELSE IF m.componentType = ComponentResistor
         THEN reviewResistor(m, CalculateResistor(m.resistorReading))
         ELSE [m EXCEPT !.screen = screenResults, !.err = NoValidationError]
    ELSE IF lowerKey(key) = "c"
    THEN [m EXCEPT !.screen = screenEdit, !.input = <<>>, !.err = NoValidationError]
    ELSE IF lowerKey(key) = "q" THEN quit(m)
    ELSE m

\* m.history[len(m.history)-1]
lastEntry(m) == m.history[Len(m.history)]

\* lines 460-461
noteNeedsEntry(m) ==
    \/ m.currentNote = <<>> /\ Len(m.history) = 0
    \/ Len(m.history) > 0 /\ lastEntry(m).Note # m.currentNote

\* lines 477-479 and 581-582 negated: the last entry is not the current result
resultNotLast(m) ==
    \/ lastEntry(m).CapacitorResult # m.capacitorResult
    \/ lastEntry(m).ResistorResult # m.resistorResult

\* m.history = append(m.history, entry)
withEntry(m) == [m EXCEPT !.history = Append(@, currentEntry(m))]

\* lines 489-498
toFilePicker(m) ==
    IF Len(m.history) = 0
    THEN [m EXCEPT !.err = Errorf("no data to export (decode at least one component first)"),
                   !.successMsg = ""]
    ELSE [m EXCEPT !.screen = screenFilePicker, !.err = NoValidationError,
                   !.successMsg = ""]

handleResultsInput(m, key) ==
    IF lowerKey(key) = "d"
    THEN [m EXCEPT !.screen = screenComponentSelection, !.input = <<>>,
                   !.currentBand = 1, !.err = NoValidationError, !.successMsg = "",
                   !.capacitorReading = initialCapacitorReading,
                   !.resistorReading = initialResistorReading,
                   !.capacitorResult = NilResult, !.resistorResult = NilResult,
                   !.currentNote = <<>>]
    ELSE IF lowerKey(key) = "e"
    THEN [m EXCEPT !.screen = screenEdit, !.input = <<>>, !.err = NoValidationError,
                   !.successMsg = ""]
    ELSE IF lowerKey(key) = "n"
    THEN [(IF noteNeedsEntry(m) THEN withEntry(m) ELSE m)
             EXCEPT !.screen = screenNoteInput, !.input = m.currentNote,
                    !.err = NoValidationError, !.successMsg = ""]
    ELSE IF lowerKey(key) = "x"
    THEN toFilePicker(IF Len(m.history) = 0 \/ resultNotLast(m) THEN withEntry(m) ELSE m)
    ELSE IF lowerKey(key) = "q" THEN quit(m)
    ELSE m

\* lines 518-522 and the like: the band to edit
editBand(m, band) ==
    [m EXCEPT !.editBandIndex = band, !.currentBand = band,
              !.screen = screenBandInput, !.input = <<>>, !.err = NoValidationError]

\* lines 517-555 for maxBand; the numbers 1 to 4 are not compared with maxBand
editBandChosen(m, maxBand) ==
    CASE m.input = <<"1">> -> editBand(m, 1)
      [] m.input = <<"2">> -> editBand(m, 2)
      [] m.input = <<"3">> -> editBand(m, 3)
      [] m.input = <<"4">> -> editBand(m, 4)
      [] m.input = <<"5">> /\ maxBand >= 5 -> editBand(m, 5)
      [] m.input = <<"6">> /\ maxBand >= 6 -> editBand(m, 6)
      [] OTHER -> [m EXCEPT !.err = Errorf("invalid band number")]

handleEditInput(m, key) ==
    IF key = "enter" /\ m.input # <<>>
    THEN editBandChosen(m, IF m.componentType = ComponentCapacitor
                           THEN m.capacitorReading.BandCount
                           ELSE m.resistorReading.BandCount)
    ELSE IF lowerKey(key) = "q"
    THEN [m EXCEPT !.screen = screenReview, !.input = <<>>, !.err = NoValidationError]
    ELSE editInput(m, key)

\* lines 578-603 after m.currentNote = m.input
noteSaved(m) ==
    IF Len(m.history) > 0 /\ ~resultNotLast(m)
    THEN [m EXCEPT !.history[Len(m.history)].Note = m.currentNote]
    ELSE withEntry(m)

\* lines 606-608 and 611-613
backToResults(m) ==
    [m EXCEPT !.screen = screenResults, !.input = <<>>, !.err = NoValidationError]

\* a handler that compares the length with <= in line 620
handleNoteInputInput_inclusive(m, key) ==
    IF key = "enter"
    THEN backToResults(noteSaved([m EXCEPT !.currentNote = m.input]))
    ELSE IF key = "esc" THEN backToResults(m)
    ELSE IF key = "backspace" \/ key = "delete"
    THEN IF Len(m.input) > 0 THEN [m EXCEPT !.input = dropLast(@)] ELSE m
    ELSE IF singleChar(key)
    THEN IF Len(m.input) <= NoteLimit
         THEN [m EXCEPT !.input = Append(@, key)]
         ELSE [m EXCEPT !.err = Errorf("note too long (max 200 characters)")]
    ELSE m

handleNoteInputInput(m, key) ==
    IF key = "enter"
    THEN backToResults(noteSaved([m EXCEPT !.currentNote = m.input]))
    ELSE IF key = "esc" THEN backToResults(m)
    ELSE IF key = "backspace" \/ key = "delete"
    THEN IF Len(m.input) > 0 THEN [m EXCEPT !.input = dropLast(@)] ELSE m
    ELSE IF singleChar(key)
    THEN IF Len(m.input) < NoteLimit
         THEN [m EXCEPT !.input = Append(@, key)]
         ELSE [m EXCEPT !.err = Errorf("note too long (max 200 characters)")]
    ELSE m

\* the switch has no case for screenFilePicker
handleKeyPress(m, key) ==
    IF key = "ctrl+c" THEN quit(m)
    ELSE CASE m.screen = screenWelcome -> handleWelcomeInput(m, key)
           [] m.screen = screenComponentSelection -> handleComponentSelectionInput(m, key)
           [] m.screen = screenTypeSelection -> handleTypeSelectionInput(m, key)
           [] m.screen = screenBandCountSelection -> handleBandCountInput(m, key)
           [] m.screen = screenBandInput -> handleBandInputInput(m, key)
           [] m.screen = screenReview -> handleReviewInput(m, key)
           [] m.screen = screenResults -> handleResultsInput(m, key)
           [] m.screen = screenNoteInput -> handleNoteInputInput(m, key)
           [] m.screen = screenEdit -> handleEditInput(m, key)
           [] OTHER -> m

\* Update for a message that is not a key, lines 85-112: on the file picker
\* the picker reports whether the message selected a file, and the export of
\* the history to that file succeeds or fails
updateMessage(m, didSelect, exported) ==
    IF m.screen = screenFilePicker /\ didSelect
    THEN IF exported
         THEN [m EXCEPT !.selectedFile = "path", !.err = NoValidationError,
                        !.successMsg = "Successfully exported", !.screen = screenResults]
         ELSE [m EXCEPT !.selectedFile = "path", !.err = Errorf("export failed: %v"),
                        !.successMsg = "", !.screen = screenResults]
    ELSE m

---------------------------------------------------------------------------
(* validation.go: ValidateResistorReading                                  *)

\* the first error of the checks made in order, nil when all pass
RECURSIVE firstError(_)
firstError(errs) ==
    IF errs = <<>> THEN NoValidationError
    ELSE IF Head(errs) # NoValidationError THEN Head(errs)
    ELSE firstError(Tail(errs))

\* the checks of the 4-band layout without the tolerance band
resistorChecks4_noTolerance(reading) ==
    <<ValidateResistorBand1(reading.Band1), ValidateResistorBand2(reading.Band2),
      ValidateResistorMultiplier(reading.Band3, 3)>>

\* lines 481-492
resistorChecks4(reading) ==
    <<ValidateResistorBand1(reading.Band1), ValidateResistorBand2(reading.Band2),
      ValidateResistorMultiplier(reading.Band3, 3),
      ValidateResistorTolerance(reading.Band4, 4)>>

\* lines 496-510
resistorChecks5(reading) ==
    <<ValidateResistorBand1(reading.Band1), ValidateResistorBand2(reading.Band2),
      ValidateResistorBand3(reading.Band3),
      ValidateResistorMultiplier(reading.Band4, 4),
      ValidateResistorTolerance(reading.Band5, 5)>>

\* lines 514-531
resistorChecks6(reading) ==
    resistorChecks5(reading) \o <<ValidateResistorTempCoeff(reading.Band6)>>

ValidateResistorReading(reading) ==
    CASE reading.BandCount = 4 -> firstError(resistorChecks4(reading))
      [] reading.BandCount = 5 -> firstError(resistorChecks5(reading))
      [] reading.BandCount = 6 -> firstError(resistorChecks6(reading))
      [] OTHER -> Errorf("invalid band count: %d (must be 4, 5, or 6)")

---------------------------------------------------------------------------
(* Calls of the engine: each behaviour makes one call, whose arguments and *)
(* return value the step stores                                            *)

BandCounts == 0 .. MaxBandCount

\* the five types and the zero value of CapacitorType
CapTypeInputs == {TypeJ, TypeK, TypeL, TypeM, TypeN, ""}

\* (Band5, BandCount, CapType) of the readings whose bands 1-4 take every colour
CapRatingProbe == {<<ColorOrange, 5, TypeK>>, <<ColorBlack, 4, TypeK>>}

\* (Band1..Band4) of the readings whose Band5, BandCount, CapType take every value
CapValueProbe ==
    {<<ColorRed, ColorViolet, ColorOrange, ColorBrown>>,
     <<ColorBrown, ColorBlack, ColorBlack, ColorBrown>>,
     <<ColorGold, ColorBlack, ColorBrown, ColorBrown>>}

\* (Band4, Band5, Band6) of the 5/6-band readings whose bands 1-3 take every colour
ResTailProbe == {<<ColorBrown, ColorBrown, ColorRed>>, <<ColorGold, ColorGrey, ColorWhite>>}

\* (Band1, Band2, Band3) of the readings whose other fields take every value
ResHeadProbe == {<<ColorYellow, ColorViolet, ColorBlack>>, <<ColorBrown, ColorSilver, ColorRed>>}

\* values around every unit threshold, from 0.01 up to 1001 * 10^9
ScaleInputs ==
    {D(m, e) : m \in {1, 47, 999, 1001}, e \in -2 .. 9}
    \cup {Zero, F(470), F(470000), F(999999), F(470000000), F(999999999)}

\* capacitances handed to calculateTolerance directly, as the test
\* TestToleranceCalculation does: around 10 pF, and small and large ones
ToleranceInputs ==
    {Zero, D(5, -2), F(5), D(999, -2), F(10), D(1001, -2), F(11), F(1000), F(27000)}

NoReturn == [none |-> TRUE]

Init ==
    /\ pc = "idle"
    /\ op = ""
    /\ arg = NoReturn
    /\ ret = NoReturn

\* a call of operation name with argument a returning value
Call(name, a, value) ==
    /\ pc' = "return"
    /\ op' = name
    /\ arg' = a
    /\ ret' = value

DoCalculate ==
    /\ pc = "idle"
    /\ \/ \E a \in Color, b \in Color, c \in Color, d \in Color, p \in CapRatingProbe :
             LET reading == CapacitorReading(a, b, c, d, p[1], p[2], p[3])
             IN  Call("Calculate", reading, Calculate(reading))
       \/ \E q \in CapValueProbe, e \in Color, n \in BandCounts, t \in CapTypeInputs :
             LET reading == CapacitorReading(q[1], q[2], q[3], q[4], e, n, t)
             IN  Call("Calculate", reading, Calculate(reading))

\* calculateTolerance on a result whose CapacitancePF was set by the caller
DoCalculateTolerance ==
    /\ pc = "idle"
    /\ \E pF \in ToleranceInputs, c \in Color :
          LET reading == CapacitorReading(ColorBlack, ColorBlack, ColorBlack, c,
                                          ColorBlack, 4, TypeK)
              result  == withCapacitance(CalculationResult(reading), pF,
                                         scaleCapacitance(pF))
          IN  Call("calculateTolerance", result, calculateTolerance(result))

DoCalculateResistor ==
    /\ pc = "idle"
    /\ \/ \E a \in Color, b \in Color, c \in Color, d \in Color :
             LET reading == ResistorReading(a, b, c, d, ColorBlack, ColorBlack, 4)
             IN  Call("CalculateResistor", reading, CalculateResistor(reading))
       \/ \E a \in Color, b \in Color, c \in Color, p \in ResTailProbe, n \in {5, 6} :
             LET reading == ResistorReading(a, b, c, p[1], p[2], p[3], n)
             IN  Call("CalculateResistor", reading, CalculateResistor(reading))
       \/ \E q \in ResHeadProbe, d \in Color, e \in Color, f \in Color, n \in BandCounts :
             LET reading == ResistorReading(q[1], q[2], q[3], d, e, f, n)
             IN  Call("CalculateResistor", reading, CalculateResistor(reading))

DoScaleCapacitance ==
    /\ pc = "idle"
    /\ \E pF \in ScaleInputs : Call("scaleCapacitance", pF, scaleCapacitance(pF))

DoScaleResistance ==
    /\ pc = "idle"
    /\ \E ohms \in ScaleInputs : Call("scaleResistance", ohms, scaleResistance(ohms))

DoGetVoltageRatingFractional ==
    /\ pc = "idle"
    /\ \E t \in CapTypeInputs, c \in Color :
          Call("GetVoltageRatingFractional", [capType |-> t, band5Color |-> c],
               GetVoltageRatingFractional(t, c))

\* (Band5, BandCount, CapType) of the validated readings whose bands 1-4 take
\* every colour
ValidateProbe == {<<ColorOrange, 5, TypeK>>}

DoValidateReading ==
    /\ pc = "idle"
    /\ \/ \E a \in Color, b \in Color, c \in Color, d \in Color, p \in ValidateProbe :
             LET reading == CapacitorReading(a, b, c, d, p[1], p[2], p[3])
             IN  Call("ValidateReading", reading, ValidateReading(reading))
       \/ \E q \in CapValueProbe, e \in Color, n \in BandCounts, t \in CapTypeInputs :
             LET reading == CapacitorReading(q[1], q[2], q[3], q[4], e, n, t)
             IN  Call("ValidateReading", reading, ValidateReading(reading))

DoValidateBandCount ==
    /\ pc = "idle"
    /\ \E n \in BandCounts : Call("ValidateBandCount", n, ValidateBandCount(n))

\* the spellings of a colour name that are handed to ParseColor: the name of
\* the colour table, in lower and upper case, and padded with white space
Spellings(name) ==
    {name, ToLower(name),
     [i \in 1 .. Len(name) |->
         IF \E k \in 1 .. 26 : LowerLetters[k] = name[i]
         THEN UpperLetters[CHOOSE k \in 1 .. 26 : LowerLetters[k] = name[i]]
         ELSE name[i]],
     <<" ">> \o name, name \o <<" ">>, <<"\t", " ">> \o name \o <<" ", "\n">>}

\* texts that are no colour name: the empty and the blank text, the proper
\* prefixes of the names, names with a letter added or a blank inside
ParseInputs ==
    UNION {Spellings(Runes(GetColorInfo(c).Name)) : c \in Color}
    \cup Spellings(<<"g", "r", "a", "y">>)
    \cup UNION {{SubSeq(ToLower(Runes(GetColorInfo(c).Name)), 1, k) :
                    k \in 0 .. Len(Runes(GetColorInfo(c).Name)) - 1} : c \in Color}
    \cup {<<" ">>, <<"i", "n", "v", "a", "l", "i", "d">>, <<"r", "e", "d", "d">>,
          <<"r", "e", " ", "d">>, <<"g", "r", "e", "e", "y">>, <<"0">>}

DoParseColor ==
    /\ pc = "idle"
    /\ \E text \in ParseInputs : Call("ParseColor", text, ParseColor(text))

\* the readings of initialModel
\* the bands a session has stored before the current band: the colours of the
\* probe below the current band; the other bands hold the zero colour Black
storedBelow(probe, currentBand) ==
    [i \in 1 .. 6 |-> IF i < currentBand THEN probe[i] ELSE ColorBlack]

\* colours that pass the validators of the capacitor bands 1-4: 10 pF, 0.1 pF,
\* 11 pF and 27000 pF
CapStoredProbe ==
    {<<ColorBrown, ColorBlack, ColorBlack, ColorBrown, ColorBlack, ColorBlack>>,
     <<ColorBrown, ColorBlack, ColorGrey, ColorRed, ColorBlack, ColorBlack>>,
     <<ColorBrown, ColorBrown, ColorBlack, ColorBrown, ColorBlack, ColorBlack>>,
     <<ColorRed, ColorViolet, ColorOrange, ColorBrown, ColorBlack, ColorBlack>>}

\* colours that pass the validators of the resistor bands at 4 and at 5/6 bands
ResStoredProbe ==
    {<<ColorYellow, ColorViolet, ColorBrown, ColorGold, ColorBrown, ColorBlack>>}

\* what the user typed before Enter: every colour name, and texts that are none
BandInputTexts ==
    {ToLower(Runes(GetColorInfo(c).Name)) : c \in Color}
    \cup {<<>>, <<"g", "r", "a", "y">>, <<"r">>, <<"R", "e", "d", " ">>,
          <<"p", "i", "n", "k">>}

\* a note one character short of the limit
LongNote == [i \in 1 .. NoteLimit - 1 |-> "n"]

\* the results screen of a decoded 4-band resistor whose note is LongNote
longNoteResults ==
    LET reading == ResistorReading(ColorRed, ColorRed, ColorRed, ColorRed,
                                   ColorBlack, ColorBlack, 4)
        result  == Pointer(1, CalculateResistor(reading).result)
    IN  [SessionModel(screenResults, <<>>, 4, ComponentResistor,
                      initialCapacitorReading, reading)
            EXCEPT !.resistorResult = result, !.results = 1,
                   !.currentNote = LongNote,
                   !.history = <<ComponentEntry(ComponentResistor, NilResult, result,
                                                LongNote)>>]

\* what a session has decoded before the band input: nothing, or a result
\* with its entry in the history
withPast(m, past) ==
    [m EXCEPT !.capacitorResult = past.capacitorResult,
              !.resistorResult = past.resistorResult,
              !.currentNote = past.currentNote, !.history = past.history,
              !.results = past.results]

\* Enter on the band-input screen of a session that has stored the bands below
\* the current one
DoHandleBandInput ==
    /\ pc = "idle"
    /\ \/ \E p \in CapStoredProbe, t \in DOMAIN typeInfoMap, n \in 3 .. 5,
             text \in BandInputTexts, past \in {initialModel, longNoteResults} :
             \E k \in 1 .. n :
                LET b == storedBelow(p, k)
                    m == SessionModel(screenBandInput, text, k, ComponentCapacitor,
                             CapacitorReading(b[1], b[2], b[3], b[4], b[5], n, t),
                             initialResistorReading)
                IN  Call("handleBandInputInput", withPast(m, past),
                         handleBandInputEnter(withPast(m, past)))
       \/ \E p \in ResStoredProbe, n \in 4 .. 6, text \in BandInputTexts,
             past \in {initialModel, longNoteResults} :
             \E k \in 1 .. n :
                LET b == storedBelow(p, k)
                    m == SessionModel(screenBandInput, text, k, ComponentResistor,
                             initialCapacitorReading,
                             ResistorReading(b[1], b[2], b[3], b[4], b[5], b[6], n))
                IN  Call("handleBandInputInput", withPast(m, past),
                         handleBandInputEnter(withPast(m, past)))

\* partial inputs: every prefix of every colour name, the whole name
\* included, in lower case, capitalised and padded, and texts that start no name
SuggestionInputs ==
    UNION {UNION {{SubSeq(AllColorNames[i], 1, k),
                   SubSeq(ToLower(AllColorNames[i]), 1, k),
                   <<" ">> \o SubSeq(ToLower(AllColorNames[i]), 1, k)} :
                     k \in 0 .. Len(AllColorNames[i])} :
              i \in 1 .. Len(AllColorNames)}
    \cup {<<"x">>, <<"r", "x">>, <<"r", "e", "d", "d">>, <<"\t">>}

DoGetColorSuggestion ==
    /\ pc = "idle"
    /\ \E input \in SuggestionInputs, bandNum \in 1 .. 6 :
          Call("GetColorSuggestion", [input |-> input, bandNum |-> bandNum],
               GetColorSuggestion(input, bandNum))

DoValidateResistorReading ==
    /\ pc = "idle"
    /\ \/ \E a \in Color, b \in Color, c \in Color, d \in Color :
             LET reading == ResistorReading(a, b, c, d, ColorBlack, ColorBlack, 4)
             IN  Call("ValidateResistorReading", reading, ValidateResistorReading(reading))
       \/ \E a \in Color, b \in Color, c \in Color, p \in ResTailProbe, n \in {5, 6} :
             LET reading == ResistorReading(a, b, c, p[1], p[2], p[3], n)
             IN  Call("ValidateResistorReading", reading, ValidateResistorReading(reading))
       \/ \E q \in ResHeadProbe, d \in Color, e \in Color, f \in Color, n \in BandCounts :
             LET reading == ResistorReading(q[1], q[2], q[3], d, e, f, n)
             IN  Call("ValidateResistorReading", reading, ValidateResistorReading(reading))

DoValidateBand5 ==
    /\ pc = "idle"
    /\ \E c \in Color, t \in CapTypeInputs, n \in BandCounts :
          Call("ValidateBand5", [color |-> c, capType |-> t, bandCount |-> n],
               ValidateBand5(c, t, n))

Next ==
    \/ DoCalculate
    \/ DoCalculateTolerance
    \/ DoCalculateResistor
    \/ DoScaleCapacitance
    \/ DoScaleResistance
    \/ DoGetVoltageRatingFractional
    \/ DoValidateBand5
    \/ DoValidateReading
    \/ DoValidateBandCount
    \/ DoParseColor
    \/ DoHandleBandInput
    \/ DoGetColorSuggestion
    \/ DoValidateResistorReading

Spec == Init /\ [][Next]_vars

---------------------------------------------------------------------------
(* A session: the messages that Update receives one after the other. ret   *)
(* is the model of the session, arg the model before the last message and  *)
(* the key of that message.                                                *)

\* the longest input that is typed character by character; the inputs near
\* the note limit come from the note of a start state
MaxInputLen == 1

\* the results that a session allocates
MaxResults == 1

explored(length) == length <= MaxInputLen \/ length >= NoteLimit - 2

\* the keys pressed on each screen: keys that the handler of the screen
\* names, and on the text screens a character that is no valid entry
KeysOn(screen) ==
    {"ctrl+c"} \cup
    CASE screen = screenWelcome -> {"enter", " ", "q"}
      [] screen = screenComponentSelection -> {"enter", "backspace", "c", "r"}
      [] screen = screenTypeSelection -> {"enter", "backspace", "n", "x"}
      [] screen = screenBandCountSelection -> {"enter", "backspace", "3", "4", "5"}
      [] screen = screenBandInput -> {"enter", "tab", "backspace", "r"}
      [] screen = screenReview -> {"enter", "c", "q"}
      [] screen = screenResults -> {"d", "e", "n", "x", "q"}
      [] screen = screenNoteInput -> {"enter", "esc", "backspace", "n"}
      [] screen = screenEdit -> {"enter", "backspace", "q", "3", "4", "5"}
      [] OTHER -> {"enter", "esc", "q"}

\* initialModel, the two models that lines 165-173 assign for a capacitor
\* and for a resistor, and a model with a long note
SessionStarts ==
    {initialModel,
     [initialModel EXCEPT !.componentType = ComponentCapacitor,
                          !.screen = screenTypeSelection],
     [initialModel EXCEPT !.componentType = ComponentResistor,
                          !.screen = screenBandCountSelection],
     longNoteResults}

SessionInit ==
    /\ pc = "session"
    /\ op = "initialModel"
    /\ ret \in SessionStarts
    /\ arg = [model |-> ret, key |-> ""]

Received(name, key, after) ==
    /\ pc' = pc
    /\ op' = name
    /\ arg' = [model |-> ret, key |-> key]
    /\ ret' = after

\* Update for a key message
PressKey ==
    /\ pc = "session"
    /\ ~ret.quitting
    /\ \E key \in KeysOn(ret.screen) :
          /\ (singleChar(key) \/ key = "backspace") =>
                 explored(Len(handleKeyPress(ret, key).input))
          /\ handleKeyPress(ret, key).results <= MaxResults
          /\ Received("handleKeyPress", key, handleKeyPress(ret, key))

\* Update for another message
ReceiveMessage ==
    /\ pc = "session"
    /\ ~ret.quitting
    /\ \E didSelect \in (IF ret.screen = screenFilePicker THEN BOOLEAN ELSE {FALSE}) :
          \E exported \in (IF didSelect THEN BOOLEAN ELSE {FALSE}) :
             Received("Update", "", updateMessage(ret, didSelect, exported))

SessionNext ==
    \/ PressKey
    \/ ReceiveMessage

SessionSpec == SessionInit /\ [][SessionNext]_vars

---------------------------------------------------------------------------
(* Properties of the capacitor engine                                      *)

Returned(name) == pc = "return" /\ op = name

CalculateAccepted == Returned("Calculate") /\ ret.err = NoErr

\* a result whose tolerance was computed, by Calculate or by a direct call
ToleranceComputed ==
    /\ pc = "return" /\ op \in {"Calculate", "calculateTolerance"}
    /\ ret.err = NoErr

DigitColors == ColorBlack .. ColorWhite

\* the capacitor multiplier table as the specification states it
StatedCapMultiplier(c) ==
    CASE c = ColorBlack  -> F(1)
      [] c = ColorBrown  -> F(10)
      [] c = ColorRed    -> F(100)
      [] c = ColorOrange -> F(1000)
      [] c = ColorYellow -> F(10000)
      [] c = ColorGreen  -> F(100000)
      [] c = ColorBlue   -> F(1000000)
      [] c = ColorViolet -> F(10000000)
      [] c = ColorGrey   -> D(1, -2)
      [] c = ColorWhite  -> D(1, -1)
      [] c = ColorGold   -> D(1, -1)
      [] c = ColorSilver -> D(1, -2)

\* C1: every accepted capacitor reading has digit colours in bands 1-2 and
\* CapacitancePF = (digit(Band1)*10 + digit(Band2)) * multiplier(Band3);
\* Red, Violet, Orange gives 27000 pF.
C1_CapacitanceFormula ==
    CalculateAccepted =>
        /\ arg.Band1 \in DigitColors /\ arg.Band2 \in DigitColors
        /\ ret.result.CapacitancePF =
              DMul(F(arg.Band1 * 10 + arg.Band2), StatedCapMultiplier(arg.Band3))
        /\ (arg.Band1 = ColorRed /\ arg.Band2 = ColorViolet /\ arg.Band3 = ColorOrange)
              => ret.result.CapacitancePF = F(27000)

C1_Witness ==
    /\ CalculateAccepted
    /\ arg.Band1 = ColorRed /\ arg.Band2 = ColorViolet /\ arg.Band3 = ColorGrey
    /\ ret.result.CapacitancePF = D(27, -2)

\* the absolute tolerances (pF) the specification states
StatedAbsoluteColors == {ColorBrown, ColorRed, ColorGreen, ColorWhite}

StatedAbsolutePF(c) ==
    CASE c = ColorBrown -> D(1, -1)
      [] c = ColorRed   -> D(25, -2)
      [] c = ColorGreen -> D(5, -1)
      [] c = ColorWhite -> F(1)

\* C2: the tolerance type is "absolute" exactly when the raw capacitance is
\* <= 10 pF and band 4 is Brown, Red, Green or White (0.1, 0.25, 0.5, 1 pF);
\* every other accepted reading has type "percentage".
C2_ToleranceType ==
    ToleranceComputed =>
        LET r == ret.result
            absolute == /\ DLeq(r.CapacitancePF, F(10))
                        /\ r.Reading.Band4 \in StatedAbsoluteColors
        IN  /\ r.ToleranceType \in {"absolute", "percentage"}
            /\ r.ToleranceType = "absolute" <=> absolute
            /\ absolute => r.ToleranceAbsolutePF = StatedAbsolutePF(r.Reading.Band4)
            /\ (r.CapacitancePF = D(1001, -2) /\ r.Reading.Band4 = ColorBrown) =>
                  r.ToleranceType = "percentage" /\ r.TolerancePercent = F(1)
            /\ (r.CapacitancePF = F(10) /\ r.Reading.Band4 = ColorOrange) =>
                  r.ToleranceType = "percentage" /\ r.TolerancePercent = F(3)

C2_Witness ==
    /\ CalculateAccepted
    /\ ret.result.CapacitancePF = F(10)
    /\ arg.Band4 = ColorBrown
    /\ ret.result.ToleranceType = "absolute"

C2_WitnessAboveTen ==
    /\ Returned("calculateTolerance")
    /\ ret.result.CapacitancePF = D(1001, -2)
    /\ ret.result.Reading.Band4 = ColorBrown
    /\ ret.result.ToleranceType = "percentage"

\* C3: the bounds before scaling are raw*(1 - low/100) and raw*(1 + high/100)
\* for percentage tolerance, Grey being the only colour with high # low
\* (80 / 20: 1000 pF gives 800 and 1800 pF), and max(0, raw - abs) and
\* raw + abs for absolute tolerance; the minimum is never negative.
C3_ToleranceBounds ==
    ToleranceComputed =>
        LET r   == ret.result
            raw == r.CapacitancePF
        IN  /\ r.Reading.Band4 = ColorGrey =>
                  r.ToleranceHigh = F(80) /\ r.ToleranceLow = F(20)
            /\ r.Reading.Band4 # ColorGrey => r.ToleranceHigh = r.ToleranceLow
            /\ r.ToleranceType = "percentage" =>
                  /\ r.RawMinPF = DMul(raw, DSub(One, DDivPow10(r.ToleranceLow, 2)))
                  /\ r.RawMaxPF = DMul(raw, DAdd(One, DDivPow10(r.ToleranceHigh, 2)))
            /\ r.ToleranceType = "absolute" =>
                  /\ r.RawMinPF = IF DLess(raw, r.ToleranceAbsolutePF) THEN Zero
                                  ELSE DSub(raw, r.ToleranceAbsolutePF)
                  /\ r.RawMaxPF = DAdd(raw, r.ToleranceAbsolutePF)
            /\ ~DLess(r.RawMinPF, Zero)
            /\ (raw = F(1000) /\ r.Reading.Band4 = ColorGrey) =>
                  r.RawMinPF = F(800) /\ r.RawMaxPF = F(1800)
            /\ (raw = F(10) /\ r.Reading.Band4 = ColorBrown) =>
                  r.RawMinPF = D(99, -1) /\ r.RawMaxPF = D(101, -1)

C3_Witness ==
    /\ CalculateAccepted
    /\ ret.result.CapacitancePF = F(1000) /\ arg.Band4 = ColorGrey
    /\ ret.result.RawMinPF = F(800) /\ ret.result.RawMaxPF = F(1800)

C3_WitnessFloor ==
    /\ ToleranceComputed
    /\ ret.result.ToleranceType = "absolute"
    /\ DLess(ret.result.CapacitancePF, ret.result.ToleranceAbsolutePF)
    /\ ret.result.RawMinPF = Zero

\* the unit rule as the specification states it
StatedCapUnit(pF) ==
    IF DLess(pF, F(1000)) THEN "pF"
    ELSE IF DLess(pF, F(1000000)) THEN "nF"
    ELSE IF DLess(pF, F(1000000000)) THEN "uF"
    ELSE "mF"

StatedCapFactor(unit) ==
    CASE unit = "pF" -> F(1)
      [] unit = "nF" -> F(1000)
      [] unit = "uF" -> F(1000000)
      [] unit = "mF" -> F(1000000000)

ScaledAs(value, unit, pF) ==
    /\ unit = StatedCapUnit(pF)
    /\ DMul(value, StatedCapFactor(unit)) = pF

\* C4: scaleCapacitance returns pF below 1000, nF in [1000, 10^6), uF in
\* [10^6, 10^9) and mF from 10^9 on, with the value divided by the unit's
\* factor; Calculate scales the nominal value, the minimum and the maximum
\* each by this rule.
C4_UnitScaling ==
    /\ Returned("scaleCapacitance") =>
          /\ ScaledAs(ret.value, ret.unit, arg)
          /\ arg = F(999) => ret.unit = "pF"
          /\ arg = F(1000) => ret.unit = "nF" /\ ret.value = F(1)
          /\ arg = F(999999) => ret.unit = "nF"
          /\ arg = F(1000000) => ret.unit = "uF" /\ ret.value = F(1)
    /\ ToleranceComputed =>
          /\ ScaledAs(ret.result.CapacitanceValue, ret.result.CapacitanceUnit,
                      ret.result.CapacitancePF)
          /\ ScaledAs(ret.result.MinValue, ret.result.MinUnit, ret.result.RawMinPF)
          /\ ScaledAs(ret.result.MaxValue, ret.result.MaxUnit, ret.result.RawMaxPF)

C4_Witness ==
    /\ Returned("scaleCapacitance")
    /\ arg = F(1000000)
    /\ ret.unit = "uF" /\ ret.value = F(1)

\* a nominal value and its maximum that fall in different units
C4_WitnessIndependent ==
    /\ CalculateAccepted
    /\ ret.result.CapacitanceUnit = "pF"
    /\ ret.result.MaxUnit = "nF"

\* C5: the voltage rating is looked up only when band count >= 4 and Band5
\* is not Black, otherwise VoltageValid is false and VoltageRating is 0; a
\* band-5 colour without a voltage for the type does not make Calculate
\* fail: the result is returned with VoltageValid = false.
C5_VoltageLookup ==
    /\ CalculateAccepted =>
          LET v == GetVoltageRatingFractional(arg.CapType, arg.Band5)
          IN  IF arg.BandCount >= 4 /\ arg.Band5 # ColorBlack
              THEN /\ ret.result.VoltageValid = v.valid
                   /\ ret.result.VoltageRating = v.voltage
              ELSE /\ ret.result.VoltageValid = FALSE
                   /\ ret.result.VoltageRating = Zero
    /\ (/\ Returned("Calculate")
        /\ arg.Band1 \in DigitColors /\ arg.Band2 \in DigitColors
        /\ arg.Band4 \notin {ColorBlue, ColorViolet}) => ret.err = NoErr

C5_Witness ==
    /\ CalculateAccepted
    /\ arg.BandCount = 4 /\ arg.Band5 = ColorWhite /\ arg.CapType = TypeM
    /\ ret.result.VoltageValid = FALSE

C5_WitnessLookedUp ==
    /\ CalculateAccepted
    /\ arg.BandCount = 5 /\ arg.Band5 = ColorOrange /\ arg.CapType = TypeK
    /\ ret.result.VoltageValid /\ ret.result.VoltageRating = F(400)

---------------------------------------------------------------------------
(* Properties of the voltage and temperature-coefficient lookups           *)

CapTypes == {TypeJ, TypeK, TypeL, TypeM, TypeN}

\* the voltages of type M at digits 1..8 as the specification states them
StatedTypeMVoltages ==
    <<D(16, -1), D(25, -1), F(4), D(63, -1), F(10), F(16), F(25), F(40)>>

\* the voltage lists of the other types, in band-colour order
StatedVoltageList(t) ==
    CASE t = TypeJ -> <<3, 4, 6, 10, 15, 20, 25, 35, 50>>
      [] t = TypeK -> <<100, 200, 300, 400, 500, 600, 700, 800, 900, 1000, 2000>>
      [] t = TypeL -> <<100, 250, 400, 630>>
      [] t = TypeN -> <<3, 6, 0, 10, 15, 20, 25, 35>>

\* the stated outcome of the lookup for a type and a colour
StatedVoltage(t, c) ==
    IF c \in {ColorGold, ColorSilver} THEN NoVoltage
    ELSE IF t = TypeM
         THEN IF c \in 1 .. 8
              THEN [voltage |-> StatedTypeMVoltages[c], valid |-> TRUE]
              ELSE NoVoltage
    ELSE IF t = TypeN /\ c = ColorRed THEN [voltage |-> D(63, -1), valid |-> TRUE]
    ELSE IF c + 1 > Len(StatedVoltageList(t)) THEN NoVoltage
    ELSE [voltage |-> F(StatedVoltageList(t)[c + 1]), valid |-> TRUE]

\* C6: type M maps digits 1..8 to 1.6, 2.5, 4, 6.3, 10, 16, 25, 40 V and has
\* no voltage for Black, White, Gold, Silver; type N maps Red to 6.3 V and
\* its other mapped digits to the integers of its list; types J, K, L map a
\* colour to the list entry at its digit index, and to nothing past the end.
C6_VoltageTable ==
    (Returned("GetVoltageRatingFractional") /\ arg.capType \in CapTypes) =>
        /\ ret = StatedVoltage(arg.capType, arg.band5Color)
        /\ (arg.capType = TypeM /\ arg.band5Color = ColorBrown) =>
              ret = [voltage |-> D(16, -1), valid |-> TRUE]
        /\ (arg.capType = TypeM /\ arg.band5Color = ColorBlack) => ~ret.valid
        /\ (arg.capType = TypeN /\ arg.band5Color = ColorRed) =>
              ret = [voltage |-> D(63, -1), valid |-> TRUE]

C6_Witness ==
    /\ Returned("GetVoltageRatingFractional")
    /\ arg.capType = TypeM /\ arg.band5Color = ColorBrown
    /\ ret.valid /\ ret.voltage = D(16, -1)

\* C7 as stated: for every type the lookup has no voltage for a Black band
\* 5, and band-5 validation at band count >= 4 rejects Black.
C7_BlackNeverValid ==
    /\ (/\ Returned("GetVoltageRatingFractional")
        /\ arg.capType \in CapTypes /\ arg.band5Color = ColorBlack) => ~ret.valid
    /\ (/\ Returned("ValidateBand5")
        /\ arg.capType \in CapTypes /\ arg.color = ColorBlack /\ arg.bandCount >= 4)
          => ret.BandNumber = 5

\* the rating of a Black band 5 for the types other than M
FirstVoltage(t) ==
    CASE t = TypeJ -> F(3)
      [] t = TypeK -> F(100)
      [] t = TypeL -> F(100)
      [] t = TypeN -> F(3)

\* C7 (amended): Black is not a valid voltage code for type M only: the
\* lookup has no voltage for a Black band 5 of type M, and band-5 validation
\* at band count >= 4 rejects Black for type M; for J, K, L, N the lookup
\* returns the first entry of the list (3, 100, 100, 3 V) and validation
\* accepts Black.
C7_BlackInvalidForTypeM ==
    /\ (/\ Returned("GetVoltageRatingFractional")
        /\ arg.capType \in CapTypes /\ arg.band5Color = ColorBlack) =>
          IF arg.capType = TypeM THEN ret = NoVoltage
          ELSE ret = [voltage |-> FirstVoltage(arg.capType), valid |-> TRUE]
    /\ (/\ Returned("ValidateBand5")
        /\ arg.capType \in CapTypes /\ arg.color = ColorBlack /\ arg.bandCount >= 4) =>
          IF arg.capType = TypeM THEN ret.BandNumber = 5
          ELSE ret = NoValidationError

C7_Witness ==
    /\ Returned("ValidateBand5")
    /\ arg.capType = TypeM /\ arg.color = ColorBlack /\ arg.bandCount = 4
    /\ ret.BandNumber = 5

\* the voltage options the README lists for each type
ReadmeVoltages(t) ==
    CASE t = TypeJ -> {F(3), F(4), F(6), F(10), F(15), F(20), F(25), F(35), F(50)}
      [] t = TypeK -> {F(100), F(200), F(300), F(400), F(500), F(600), F(700),
                       F(800), F(900), F(1000), F(2000)}
      [] t = TypeL -> {F(100), F(250), F(400), F(630)}
      [] t = TypeM -> {D(16, -1), D(25, -1), F(4), D(63, -1), F(10), F(16), F(25), F(40)}
      [] t = TypeN -> {F(3), F(6), D(63, -1), F(10), F(15), F(20), F(25), F(35)}

\* the ratings the lookup returns for a type over the 12 colours
ObtainableVoltages(t) ==
    {GetVoltageRatingFractional(t, c).voltage :
        c \in {k \in Color : GetVoltageRatingFractional(t, k).valid}}

\* C8: for each type, the voltages the lookup returns over the 12 band-5
\* colours are exactly the options the README lists for the type.
C8_ReadmeVoltagesObtainable ==
    (Returned("GetVoltageRatingFractional") /\ arg.capType \in CapTypes) =>
        /\ ret.valid => ret.voltage \in ReadmeVoltages(arg.capType)
        /\ ObtainableVoltages(arg.capType) = ReadmeVoltages(arg.capType)

\* C9: TempCoeffValid is true exactly when band count = 5 and Band5 is one
\* of Brown..Violet, with the values -33, -75, -150, -220, -330, -470, -750.
StatedTempCoefficients == <<-33, -75, -150, -220, -330, -470, -750>>

C9_TempCoefficient ==
    CalculateAccepted =>
        LET looked == arg.BandCount = 5 /\ arg.Band5 \in ColorBrown .. ColorViolet
        IN  /\ ret.result.TempCoeffValid = looked
            /\ looked => /\ ret.result.TempCoefficient = StatedTempCoefficients[arg.Band5]
                         /\ ret.result.TempCoefficient < 0
            /\ ~looked => ret.result.TempCoefficient = 0

C9_Witness ==
    /\ CalculateAccepted
    /\ arg.BandCount = 5 /\ arg.Band5 = ColorOrange
    /\ ret.result.TempCoeffValid /\ ret.result.TempCoefficient = -150

---------------------------------------------------------------------------
(* Properties of the resistor engine                                       *)

ResistorAccepted == Returned("CalculateResistor") /\ ret.err = NoErr

\* the resistor multiplier table as the specification states it:
\* Black 1 .. White 10^9, Gold 0.1, Silver 0.01
StatedResMultiplier(c) ==
    IF c = ColorGold THEN D(1, -1)
    ELSE IF c = ColorSilver THEN D(1, -2)
    ELSE D(1, c)

\* C10: an accepted resistor reading has ResistanceOhms = base * multiplier:
\* 4 bands: base digit(B1)*10 + digit(B2), multiplier B3, tolerance B4;
\* 5 and 6 bands: base digit(B1)*100 + digit(B2)*10 + digit(B3), multiplier
\* B4, tolerance B5.
C10_ResistanceFormula ==
    ResistorAccepted =>
        LET r == arg
        IN  /\ r.BandCount = 4 =>
                  /\ ret.result.ResistanceOhms =
                        DMul(F(r.Band1 * 10 + r.Band2), StatedResMultiplier(r.Band3))
                  /\ ret.result.TolerancePercent = resistorToleranceMap[r.Band4].Percent
            /\ r.BandCount \in {5, 6} =>
                  /\ ret.result.ResistanceOhms =
                        DMul(F(r.Band1 * 100 + r.Band2 * 10 + r.Band3),
                             StatedResMultiplier(r.Band4))
                  /\ ret.result.TolerancePercent = resistorToleranceMap[r.Band5].Percent
            /\ r.BandCount \in {4, 5, 6}
            /\ (/\ r.BandCount = 5
                /\ <<r.Band1, r.Band2, r.Band3, r.Band4, r.Band5>> =
                      <<ColorYellow, ColorViolet, ColorBlack, ColorBrown, ColorBrown>>)
                  => ret.result.ResistanceOhms = F(4700)
            /\ (/\ r.BandCount = 4
                /\ <<r.Band1, r.Band2, r.Band3, r.Band4>> =
                      <<ColorYellow, ColorViolet, ColorBlack, ColorGold>>)
                  => ret.result.ResistanceOhms = F(47)

C10_Witness ==
    /\ ResistorAccepted
    /\ arg.BandCount = 5
    /\ <<arg.Band1, arg.Band2, arg.Band3, arg.Band4, arg.Band5>> =
          <<ColorYellow, ColorViolet, ColorBlack, ColorBrown, ColorBrown>>
    /\ ret.result.ResistanceOhms = F(4700)

C10_WitnessFourBand ==
    /\ ResistorAccepted
    /\ arg.BandCount = 4
    /\ <<arg.Band1, arg.Band2, arg.Band3, arg.Band4>> =
          <<ColorYellow, ColorViolet, ColorBlack, ColorGold>>
    /\ ret.result.ResistanceOhms = F(47)

\* the resistor tolerance table as the specification states it, in percent
StatedResTolerance(c) ==
    CASE c = ColorBrown  -> F(1)
      [] c = ColorRed    -> F(2)
      [] c = ColorGreen  -> D(5, -1)
      [] c = ColorBlue   -> D(25, -2)
      [] c = ColorViolet -> D(1, -1)
      [] c = ColorGrey   -> D(5, -2)
      [] c = ColorGold   -> F(5)
      [] c = ColorSilver -> F(10)
      [] OTHER           -> Zero

\* C11: resistor tolerance is a symmetric percentage: for every accepted
\* reading min = ohms*(1 - pct/100) and max = ohms*(1 + pct/100) before
\* scaling, pct being the stated table's entry of the tolerance band, so
\* max - ohms = ohms - min for every colour, Grey included.
C11_ResistorTolerance ==
    ResistorAccepted =>
        LET r    == ret.result
            ohms == r.ResistanceOhms
            tc   == IF arg.BandCount = 4 THEN arg.Band4 ELSE arg.Band5
            pct  == StatedResTolerance(tc)
        IN  /\ tc \in ResistorToleranceColors
            /\ r.TolerancePercent = pct
            /\ r.RawMinOhms = DMul(ohms, DSub(One, DDivPow10(pct, 2)))
            /\ r.RawMaxOhms = DMul(ohms, DAdd(One, DDivPow10(pct, 2)))
            /\ DSub(r.RawMaxOhms, ohms) = DSub(ohms, r.RawMinOhms)
            /\ DLeq(r.RawMinOhms, ohms) /\ DLeq(ohms, r.RawMaxOhms)

C11_Witness ==
    /\ ResistorAccepted
    /\ arg.BandCount = 4 /\ arg.Band4 = ColorGrey
    /\ ret.result.ResistanceOhms = F(4700)
    /\ ret.result.RawMinOhms = D(469765, -2)
    /\ ret.result.RawMaxOhms = D(470235, -2)

\* the resistance unit rule as the specification states it
StatedResUnit(ohms) ==
    IF DLess(ohms, F(1000)) THEN "Ohm"
    ELSE IF DLess(ohms, F(1000000)) THEN "kOhm"
    ELSE IF DLess(ohms, F(1000000000)) THEN "MOhm"
    ELSE "GOhm"

StatedResFactor(unit) ==
    CASE unit = "Ohm"  -> 0
      [] unit = "kOhm" -> 3
      [] unit = "MOhm" -> 6
      [] unit = "GOhm" -> 9

ResScaledAs(value, unit, ohms) ==
    /\ unit = StatedResUnit(ohms)
    /\ value = DDivPow10(ohms, StatedResFactor(unit))

\* C12: scaleResistance picks the unit from the ohm value alone: Ohm below
\* 1000, kOhm from 1000 below 10^6, MOhm from 10^6 below 10^9, GOhm from 10^9
\* on, and returns the value divided by the unit's factor (4700 is 4.7 kOhm);
\* CalculateResistor applies it separately to the nominal value, the minimum
\* and the maximum.
C12_ResistanceScaling ==
    /\ Returned("scaleResistance") =>
          /\ ResScaledAs(ret.value, ret.unit, arg)
          /\ arg = F(4700) => ret.value = D(47, -1) /\ ret.unit = "kOhm"
    /\ ResistorAccepted =>
          /\ ResScaledAs(ret.result.ResistanceValue, ret.result.ResistanceUnit,
                         ret.result.ResistanceOhms)
          /\ ResScaledAs(ret.result.MinValue, ret.result.MinUnit, ret.result.RawMinOhms)
          /\ ResScaledAs(ret.result.MaxValue, ret.result.MaxUnit, ret.result.RawMaxOhms)

C12_Witness ==
    /\ Returned("scaleResistance")
    /\ arg = F(1000)
    /\ ret.value = F(1) /\ ret.unit = "kOhm"

\* minimum and maximum of one result in different units
C12_WitnessIndependent ==
    /\ ResistorAccepted
    /\ ret.result.MinUnit = "Ohm" /\ ret.result.ResistanceUnit = "kOhm"
    /\ ret.result.MaxUnit = "kOhm"

\* the resistor temperature coefficients as the specification states them
StatedResTempCoefficients == <<250, 100, 50, 15, 25, 20, 10, 5, 1>>

\* C13: the resistor temperature coefficient applies at 6 bands only: at 4
\* and 5 bands TempCoeffValid is false whatever Band6 holds; at 6 bands it is
\* true exactly for Band6 in Black..Grey, with the values 250, 100, 50, 15,
\* 25, 20, 10, 5, 1 ppm/C, all positive.
C13_ResistorTempCoefficient ==
    ResistorAccepted =>
        LET r == ret.result
        IN  /\ arg.BandCount \in {4, 5} =>
                  ~r.TempCoeffValid /\ r.TempCoefficient = 0
            /\ arg.BandCount = 6 =>
                  /\ r.TempCoeffValid <=> arg.Band6 \in ColorBlack .. ColorGrey
                  /\ r.TempCoeffValid =>
                        /\ r.TempCoefficient = StatedResTempCoefficients[arg.Band6 + 1]
                        /\ r.TempCoefficient > 0

C13_Witness ==
    /\ ResistorAccepted
    /\ arg.BandCount = 6 /\ arg.Band6 = ColorRed
    /\ ret.result.TempCoeffValid /\ ret.result.TempCoefficient = 50

\* a 5-band reading whose Band6 holds a colour of the coefficient table
C13_WitnessFiveBand ==
    /\ ResistorAccepted
    /\ arg.BandCount = 5 /\ arg.Band6 = ColorRed
    /\ ~ret.result.TempCoeffValid

---------------------------------------------------------------------------
(* Properties of the error cases                                           *)

\* the error of a band count outside the legal set
InvalidBandCount == "band count must be 3, 4, or 5"

\* C14: a capacitor reading whose band count is outside {3,4,5} is rejected
\* with the band-count error by Calculate and by ValidateReading, whatever
\* its colours and type are.
C14_BandCountRejected ==
    /\ (Returned("Calculate") /\ arg.BandCount \notin {3, 4, 5}) =>
          ret.result = NilResult /\ ret.err = InvalidBandCount
    /\ (Returned("ValidateReading") /\ arg.BandCount \notin {3, 4, 5}) =>
          ret # NoValidationError /\ ret.Message = InvalidBandCount

\* Calculate and ValidateReading accept 7 bands; ValidateBandCount rejects 7
C14_AcceptedSevenBands ==
    \/ /\ CalculateAccepted /\ arg.BandCount = 7
    \/ /\ Returned("ValidateReading") /\ arg.BandCount = 7 /\ ret = NoValidationError
    \/ /\ Returned("ValidateBandCount") /\ arg = 7 /\ ret = InvalidBandCount

ResistorDigitBands(r) ==
    IF r.BandCount = 4 THEN {r.Band1, r.Band2} ELSE {r.Band1, r.Band2, r.Band3}

NotDigitColors == {ColorGold, ColorSilver}

StatedNoResTolerance == {ColorBlack, ColorOrange, ColorYellow, ColorWhite}

\* C15: CalculateResistor returns an error and no result exactly when the band
\* count is outside {4,5,6}, or a digit band (B1, B2; also B3 at 5/6 bands) is
\* Gold or Silver, or the tolerance band (B4 at 4 bands, B5 at 5/6) is Black,
\* Orange, Yellow or White; a band count such as 7 gives the band-count error
\* whatever the colours, and a digit error comes before a tolerance error.
C15_ResistorErrors ==
    Returned("CalculateResistor") =>
        LET r        == arg
            badCount == r.BandCount \notin {4, 5, 6}
            badDigit == ResistorDigitBands(r) \cap NotDigitColors # {}
            badTol   == (IF r.BandCount = 4 THEN r.Band4 ELSE r.Band5)
                           \in StatedNoResTolerance
        IN  /\ ret.err # NoErr <=> (badCount \/ badDigit \/ badTol)
            /\ ret.err # NoErr <=> ret.result = NilResult
            /\ badCount => ret.err = "invalid band count: %d (must be 4, 5, or 6)"
            /\ (~badCount /\ badDigit) =>
                  ret.err \in {"invalid digit colors for bands 1 or 2",
                               "invalid digit colors for bands 1, 2, or 3"}
            /\ (~badCount /\ ~badDigit /\ badTol) => ret.err = "invalid tolerance color"

\* a digit error reported for a reading whose tolerance band is illegal too
C15_Witness ==
    /\ Returned("CalculateResistor")
    /\ arg.BandCount = 5
    /\ arg.Band2 = ColorSilver /\ arg.Band5 = ColorBlack
    /\ ret.err = "invalid digit colors for bands 1, 2, or 3"

C15_WitnessSevenBands ==
    /\ Returned("CalculateResistor")
    /\ arg.BandCount = 7 /\ arg.Band1 = ColorBrown /\ arg.Band2 = ColorSilver
    /\ ret.err = "invalid band count: %d (must be 4, 5, or 6)"

\* C16: Calculate returns an error and no result exactly when Band1 or Band2
\* is Gold or Silver (digit error), or Band3 is not multiplier-valid
\* (multiplier error), or Band4 is Blue or Violet (tolerance error), in that
\* order of precedence; Band5 and the capacitor type never cause an error.
C16_CalculateErrors ==
    Returned("Calculate") =>
        LET r        == arg
            badDigit == {r.Band1, r.Band2} \cap NotDigitColors # {}
            badMult  == ~colorMap[r.Band3].ValidMult
            badTol   == r.Band4 \in {ColorBlue, ColorViolet}
        IN  /\ ret.err # NoErr <=> (badDigit \/ badMult \/ badTol)
            /\ ret.err # NoErr <=> ret.result = NilResult
            /\ badDigit => ret.err = "invalid digit colors for bands 1 or 2"
            /\ (~badDigit /\ badMult) => ret.err = "invalid multiplier color for band 3"
            /\ (~badDigit /\ ~badMult /\ badTol) =>
                  ret.err = "invalid tolerance color for band 4"

\* a digit error reported for a reading whose tolerance band is illegal too
C16_Witness ==
    /\ Returned("Calculate")
    /\ arg.Band2 = ColorGold /\ arg.Band4 = ColorViolet
    /\ ret.err = "invalid digit colors for bands 1 or 2"

\* a Band5 without voltage mapping and an unknown type in an accepted reading
C16_WitnessRatings ==
    /\ CalculateAccepted
    /\ arg.BandCount = 5 /\ arg.Band5 = ColorGold /\ arg.CapType = ""

---------------------------------------------------------------------------
(* Properties of ParseColor                                                *)

\* the same letter in either case
SameLetter(a, b) ==
    a = b \/ \E i \in 1 .. 26 : {a, b} = {UpperLetters[i], LowerLetters[i]}

Blank(ch) == ch \in {" ", "\t", "\n", "\r"}

\* text is name in some letter case with white space around it
Spells(text, name) ==
    \E i \in 1 .. Len(text) + 1 :
        LET j == i + Len(name) - 1
        IN  /\ j <= Len(text)
            /\ \A k \in 1 .. Len(text) : (k < i \/ k > j) => Blank(text[k])
            /\ \A k \in 1 .. Len(name) : SameLetter(text[i + k - 1], name[k])

\* the names a colour is written with: the Name of the colour table, and
\* "gray" for Grey
StatedNames(c) ==
    {Runes(GetColorInfo(c).Name)}
    \cup (IF c = ColorGrey THEN {<<"g", "r", "a", "y">>} ELSE {})

\* C17: ParseColor round-trips with the colour table: the Name of each colour
\* parses to that colour in any letter case and with white space around it,
\* "grey" and "gray" both parse to Grey, and any other text, the empty text
\* and proper prefixes such as "r" included, is not found.
C17_ParseColorRoundTrip ==
    Returned("ParseColor") =>
        /\ \A c \in Color :
              (\E name \in StatedNames(c) : Spells(arg, name)) =>
                  ret = [color |-> c, exists |-> TRUE]
        /\ ret.exists =>
              \E name \in StatedNames(ret.color) : Spells(arg, name)
        /\ arg \in {<<>>, <<"r">>} => ~ret.exists

C17_Witness ==
    /\ Returned("ParseColor")
    /\ arg = <<"\t", " ", "G", "r", "e", "y", " ", "\n">>
    /\ ret = [color |-> ColorGrey, exists |-> TRUE]

C17_WitnessPrefix ==
    /\ Returned("ParseColor")
    /\ arg = <<"r">>
    /\ ~ret.exists

C17_WitnessGray ==
    /\ Returned("ParseColor")
    /\ arg = <<"G", "R", "A", "Y">>
    /\ ret = [color |-> ColorGrey, exists |-> TRUE]

---------------------------------------------------------------------------
(* Properties of the band input                                            *)

\* the colour that the text of the input names
Typed(c) == \E name \in StatedNames(c) : Spells(arg.input, name)

\* Enter on capacitor band 4 with a colour of the tolerance table that has no
\* absolute value, the stored bands 1-3 giving at most 10 pF
SmallCapPercentEntry(c) ==
    /\ Returned("handleBandInputInput")
    /\ arg.componentType = ComponentCapacitor /\ arg.currentBand = 4
    /\ Typed(c)
    /\ c \in ToleranceColors \ StatedAbsoluteColors
    /\ DLeq(DMul(F(arg.capacitorReading.Band1 * 10 + arg.capacitorReading.Band2),
                 StatedCapMultiplier(arg.capacitorReading.Band3)), F(10))

\* C18: on capacitor band 4, when the stored bands 1-3 give at most 10 pF and
\* the entered colour is in the tolerance table but has no absolute value,
\* the flag is not fatal: the colour is stored in Band4 and the session
\* advances as for any other valid tolerance colour.
C18_SmallCapToleranceStored ==
    \A c \in Color :
        SmallCapPercentEntry(c) =>
            /\ ret.capacitorReading.Band4 = c
            /\ ret.err = NoValidationError
            /\ \/ ret.screen = screenBandInput /\ ret.currentBand = 5
               \/ ret.screen = screenReview

\* what the handler does with such an entry: only the error is set, while
\* Calculate accepts the same reading
C18_SmallCapToleranceRejected ==
    \A c \in Color :
        SmallCapPercentEntry(c) =>
            /\ ret = [arg EXCEPT !.err = ret.err]
            /\ ret.err.BandNumber = 4
            /\ Calculate([arg.capacitorReading EXCEPT !.Band4 = c]).err = NoErr

C18_RejectedGold ==
    /\ SmallCapPercentEntry(ColorGold)
    /\ arg.capacitorReading.Band4 = ColorBlack
    /\ ret.capacitorReading.Band4 = ColorBlack
    /\ ret.currentBand = 4 /\ ret.screen = screenBandInput

\* any other valid tolerance entry is stored and the session advances
C18_ToleranceStored ==
    /\ Returned("handleBandInputInput")
    /\ arg.componentType = ComponentCapacitor /\ arg.currentBand = 4
    /\ Typed(ColorGold)
    /\ ret.capacitorReading.Band4 = ColorGold
    /\ ret.currentBand = 5

---------------------------------------------------------------------------
(* Properties of band-5 validation and of the tolerance range              *)

\* C19: ValidateBand5 accepts every colour below 4 bands; from 4 bands on it
\* returns an error, of band number 5, exactly when the colour has no voltage
\* for the selected type; a colour without temperature coefficient is no
\* error, at 5 bands neither (Grey on type K at 5 bands is accepted).
C19_ValidateBand5 ==
    Returned("ValidateBand5") =>
        LET mapped == /\ arg.capType \in CapTypes
                      /\ StatedVoltage(arg.capType, arg.color).valid
        IN  /\ arg.bandCount < 4 => ret = NoValidationError
            /\ arg.bandCount >= 4 => (ret # NoValidationError <=> ~mapped)
            /\ ret # NoValidationError => ret.BandNumber = 5
            /\ (arg.color = ColorGrey /\ arg.capType = TypeK /\ arg.bandCount = 5) =>
                  ret = NoValidationError

\* a colour without temperature coefficient accepted at 5 bands
C19_Witness ==
    /\ Returned("ValidateBand5")
    /\ arg.color = ColorGrey /\ arg.capType = TypeK /\ arg.bandCount = 5
    /\ ~GetTempCoefficient(arg.color).exists
    /\ ret = NoValidationError

C19_WitnessRejected ==
    /\ Returned("ValidateBand5")
    /\ arg.color = ColorWhite /\ arg.capType = TypeL /\ arg.bandCount = 4
    /\ ret.BandNumber = 5

UnitRank(unit) ==
    CASE unit = "pF" -> 0
      [] unit = "nF" -> 1
      [] unit = "uF" -> 2
      [] unit = "mF" -> 3

C20_WitnessZero ==
    /\ CalculateAccepted
    /\ ret.result.CapacitancePF = Zero /\ ret.result.ToleranceType = "percentage"
    /\ ret.result.MinValue = Zero /\ ret.result.MaxValue = Zero

---------------------------------------------------------------------------
(* Properties of the autocomplete                                          *)

\* the colours offered at a band, in the order Black .. Silver
Offered(bandNum) ==
    IF bandNum \in {1, 2} THEN Color \ {ColorGold, ColorSilver} ELSE Color

\* the letters of the name of c that follow its first k letters
NameRest(c, k) ==
    SubSeq(Runes(GetColorInfo(c).Name), k + 1, Len(Runes(GetColorInfo(c).Name)))

\* text, its surrounding white space and its letter case apart, is the first
\* k letters of the name of c
StartsName(text, c, k) ==
    /\ k <= Len(Runes(GetColorInfo(c).Name))
    /\ Spells(text, SubSeq(Runes(GetColorInfo(c).Name), 1, k))

\* C25: GetColorSuggestion returns the rest of the first colour, in the order
\* Black .. Silver, whose lower-case name starts with the trimmed lower-case
\* input, and the empty text when the input is empty, complete or starts no
\* name; at bands 1 and 2 no suggestion completes to Gold or Silver, while at
\* bands 3 and 4 "go" completes to Gold and "si" to Silver.
C25_ColorSuggestion ==
    Returned("GetColorSuggestion") =>
        LET starts(c) == \E k \in 0 .. 6 : StartsName(arg.input, c, k)
            matching  == {c \in Offered(arg.bandNum) : starts(c)}
            first     == CHOOSE c \in matching : \A d \in matching : c <= d
        IN  /\ arg.input = <<>> => ret = <<>>
            /\ (arg.input # <<>> /\ matching = {}) => ret = <<>>
            /\ (arg.input # <<>> /\ matching # {}) =>
                  \E k \in 0 .. 6 :
                      StartsName(arg.input, first, k) /\ ret = NameRest(first, k)
            /\ (\E c \in Color : StartsName(arg.input, c, Len(Runes(GetColorInfo(c).Name))))
                  => ret = <<>>
            /\ arg.bandNum \in {1, 2} =>
                  \A c \in {ColorGold, ColorSilver} :
                      ret = <<>> \/ ~Spells(arg.input \o ret, Runes(GetColorInfo(c).Name))
            /\ (arg.bandNum \in {3, 4} /\ arg.input = <<"g", "o">>) => ret = <<"l", "d">>
            /\ (arg.bandNum \in {3, 4} /\ arg.input = <<"s", "i">>) =>
                  ret = <<"l", "v", "e", "r">>

C25_Witness ==
    /\ Returned("GetColorSuggestion")
    /\ arg.input = <<"g", "o">> /\ arg.bandNum = 3
    /\ ret = <<"l", "d">>

\* Gold is not offered at band 1
C25_WitnessDigitBand ==
    /\ Returned("GetColorSuggestion")
    /\ arg.input = <<"g", "o">> /\ arg.bandNum = 1
    /\ ret = <<>>

\* "g" is completed to Green, which comes before Grey and Gold
C25_WitnessFirst ==
    /\ Returned("GetColorSuggestion")
    /\ arg.input = <<"g">> /\ arg.bandNum = 4
    /\ ret = <<"r", "e", "e", "n">>

---------------------------------------------------------------------------
(* Properties of whole-reading validation                                  *)

\* C28: a capacitor reading that ValidateReading accepts is decoded by
\* Calculate without error; a resistor reading that ValidateResistorReading
\* accepts is decoded by CalculateResistor without error, with a valid
\* temperature coefficient at 6 bands; at 4 and 5 bands CalculateResistor
\* succeeds exactly when ValidateResistorReading accepts.
C28_ValidationSound ==
    /\ (Returned("ValidateReading") /\ ret = NoValidationError) =>
          /\ Calculate(arg).err = NoErr
          /\ Calculate(arg).result # NilResult
    /\ (Returned("ValidateResistorReading") /\ ret = NoValidationError) =>
          /\ CalculateResistor(arg).err = NoErr
          /\ arg.BandCount = 6 => CalculateResistor(arg).result.TempCoeffValid
    /\ (Returned("ValidateResistorReading") /\ arg.BandCount \in {4, 5}) =>
          (ret = NoValidationError <=> CalculateResistor(arg).err = NoErr)
    /\ (Returned("CalculateResistor") /\ arg.BandCount \in {4, 5}) =>
          (ret.err = NoErr <=> ValidateResistorReading(arg) = NoValidationError)

C28_Witness ==
    /\ Returned("ValidateResistorReading")
    /\ arg.BandCount = 6 /\ ret = NoValidationError
    /\ CalculateResistor(arg).result.TempCoeffValid

C28_WitnessCapacitor ==
    /\ Returned("ValidateReading")
    /\ arg.BandCount = 5 /\ ret = NoValidationError
    /\ Calculate(arg).result.CapacitancePF = F(27000)

\* at 6 bands the validator is the stricter of the two
C28_WitnessSixBands ==
    /\ Returned("ValidateResistorReading")
    /\ arg.BandCount = 6 /\ ret.BandNumber = 6
    /\ CalculateResistor(arg).err = NoErr

---------------------------------------------------------------------------
(* Properties of the band-input screen                                     *)

\* the error of the validator for the current band and component
bandError(m, color) ==
    IF m.componentType = ComponentCapacitor
    THEN capacitorBandError(m.capacitorReading, m.currentBand, color)
    ELSE resistorBandError(m.resistorReading, m.currentBand, color)

\* Enter with a text that is no colour name or a colour the validator rejects
RejectedEntry ==
    /\ Returned("handleBandInputInput")
    /\ arg.input # <<>>
    /\ \/ ~ParseColor(arg.input).exists
       \/ bandError(arg, ParseColor(arg.input).color) # NoValidationError

\* C30: Enter on the band-input screen with a text that is not a colour name,
\* or with a colour that the validator of the current band rejects, sets the
\* error and changes no other field of the model: the readings, the current
\* band, the screen, the results and the history are as before.
C30_RejectedEntryOnlySetsError ==
    RejectedEntry =>
        /\ ret.err # NoValidationError
        /\ ret = [arg EXCEPT !.err = ret.err]

C30_Witness ==
    /\ RejectedEntry
    /\ ParseColor(arg.input).exists
    /\ arg.componentType = ComponentCapacitor /\ arg.currentBand = 4
    /\ Len(arg.history) = 1
    /\ ret.err.BandNumber = 4

C30_WitnessNotAColor ==
    /\ RejectedEntry
    /\ arg.input = <<"p", "i", "n", "k">>
    /\ arg.componentType = ComponentResistor /\ arg.currentBand = 2
    /\ ret.resistorReading = arg.resistorReading

\* an accepted entry does change the reading
C30_WitnessAccepted ==
    /\ Returned("handleBandInputInput") /\ ~RejectedEntry
    /\ arg.input # <<>>
    /\ ret.capacitorReading # arg.capacitorReading

---------------------------------------------------------------------------
(* Properties of the session                                               *)

\* the last message was the key, pressed on the screen
KeyPressed(screen, key) ==
    /\ pc = "session" /\ op = "handleKeyPress"
    /\ arg.model.screen = screen /\ arg.key = key

\* C21: on the component-selection screen, Enter after typing C moves the
\* session to the capacitor type selection and Enter after typing R moves it
\* to the band-count selection of a resistor, so that the wizard can go on to
\* the results.
C21_ComponentSelected ==
    KeyPressed(screenComponentSelection, "enter") =>
        /\ ToLower(arg.model.input) = <<"c">> =>
              ret.screen = screenTypeSelection /\ ret.componentType = ComponentCapacitor
        /\ ToLower(arg.model.input) = <<"r">> =>
              ret.screen = screenBandCountSelection /\ ret.componentType = ComponentResistor

\* the band count of the component of the session
bandCountOf(m) ==
    IF m.componentType = ComponentCapacitor THEN m.capacitorReading.BandCount
    ELSE m.resistorReading.BandCount

\* the bands of the reading of the component of the session
bandsOf(m) ==
    IF m.componentType = ComponentCapacitor
    THEN <<m.capacitorReading.Band1, m.capacitorReading.Band2, m.capacitorReading.Band3,
           m.capacitorReading.Band4, m.capacitorReading.Band5, ColorBlack>>
    ELSE <<m.resistorReading.Band1, m.resistorReading.Band2, m.resistorReading.Band3,
           m.resistorReading.Band4, m.resistorReading.Band5, m.resistorReading.Band6>>

\* the session came to the band input from the edit screen and has entered
\* no colour since: before the first result only the edit screen sets
\* editBandIndex, and it sets currentBand to the same band
EditingBand(m) ==
    /\ m.screen = screenBandInput /\ m.results = 0
    /\ m.editBandIndex = m.currentBand
    /\ m.currentBand <= bandCountOf(m)

\* the input is a colour that the validator of the current band accepts
ValidEntry(m) ==
    /\ m.input # <<>>
    /\ ParseColor(m.input).exists
    /\ bandError(m, ParseColor(m.input).color) = NoValidationError

\* C22: after band k was chosen on the edit screen, Enter with a valid colour
\* changes band k only and returns the session to the review screen.
C22_EditReturnsToReview ==
    (KeyPressed(screenBandInput, "enter") /\ EditingBand(arg.model)
       /\ ValidEntry(arg.model)) =>
        /\ ret.screen = screenReview
        /\ \A i \in 1 .. 6 :
              i # arg.model.currentBand => bandsOf(ret)[i] = bandsOf(arg.model)[i]
        /\ bandsOf(ret)[arg.model.currentBand] = ParseColor(arg.model.input).color

\* C23: the length of the history changes only with Enter on the note screen
\* and with X on the results screen, and an entry of the history changes in
\* its Note only.
C23_HistoryOnlyOnCommit ==
    (pc = "session" /\ op = "handleKeyPress") =>
        /\ Len(ret.history) # Len(arg.model.history) =>
              \/ arg.model.screen = screenNoteInput /\ arg.key = "enter"
              \/ arg.model.screen = screenResults /\ lowerKey(arg.key) = "x"
        /\ Len(ret.history) >= Len(arg.model.history)
        /\ \A i \in 1 .. Len(arg.model.history) :
              [ret.history[i] EXCEPT !.Note = arg.model.history[i].Note]
                  = arg.model.history[i]

\* the notes of a model are within the limit
NotesWithinLimit(m) ==
    /\ Len(m.currentNote) <= NoteLimit
    /\ m.screen = screenNoteInput => Len(m.input) <= NoteLimit
    /\ \A i \in 1 .. Len(m.history) : Len(m.history[i].Note) <= NoteLimit

\* C24: in every state of a session the note being edited, the current note
\* and the note of every entry of the history have at most 200 characters; a
\* character typed into a note input of 200 characters is not appended and
\* the error is set.
C24_NotesWithinLimit ==
    pc = "session" =>
        /\ NotesWithinLimit(ret)
        /\ (op = "handleKeyPress" /\ arg.model.screen = screenNoteInput
              /\ singleChar(arg.key) /\ Len(arg.model.input) = NoteLimit) =>
                /\ ret.input = arg.model.input
                /\ ret.err = Errorf("note too long (max 200 characters)")
                /\ ret = [arg.model EXCEPT !.err = ret.err]

C24_Witness ==
    /\ KeyPressed(screenNoteInput, "n")
    /\ Len(arg.model.input) = NoteLimit
    /\ ret.err # NoValidationError

\* a note of 200 characters is committed to the history
C24_WitnessCommitted ==
    /\ KeyPressed(screenNoteInput, "enter")
    /\ Len(ret.currentNote) = NoteLimit
    /\ Len(ret.history[Len(ret.history)].Note) = NoteLimit

\* the 200th character is appended
C24_WitnessLastCharacter ==
    /\ KeyPressed(screenNoteInput, "n")
    /\ Len(arg.model.input) = NoteLimit - 1
    /\ Len(ret.input) = NoteLimit

\* C26: on the file-picker screen Enter selects a file, exports and returns
\* to the results screen, and q cancels and returns to the results screen.
C26_FilePickerLeft ==
    (KeyPressed(screenFilePicker, "enter") \/ KeyPressed(screenFilePicker, "q")) =>
        ret.screen = screenResults

\* the last band that Calculate or CalculateResistor reads: the tolerance
\* band 4 of a capacitor, its voltage band 5 from 4 bands on, and band N of
\* a resistor of N bands
lastBandRead(m) ==
    IF m.componentType = ComponentCapacitor
    THEN IF m.capacitorReading.BandCount >= 4 THEN 5 ELSE 4
    ELSE m.resistorReading.BandCount

\* C27: the band input goes on to the review screen only after the last band
\* that the calculation reads for the band count has been entered.
C27_AllBandsCollected ==
    (KeyPressed(screenBandInput, "enter") /\ ret.screen = screenReview) =>
        arg.model.currentBand >= lastBandRead(arg.model)

\* the number that the input of the edit screen names
statedBandNumber(input) ==
    CASE input = <<"1">> -> 1
      [] input = <<"2">> -> 2
      [] input = <<"3">> -> 3
      [] input = <<"4">> -> 4
      [] input = <<"5">> -> 5
      [] input = <<"6">> -> 6
      [] OTHER -> 0

\* C29: on the edit screen, Enter with a band number above the band count of
\* the component sets the error "invalid band number" and leaves the screen,
\* the current band and the readings unchanged.
C29_BandNumberAboveCountRejected ==
    (KeyPressed(screenEdit, "enter")
       /\ statedBandNumber(arg.model.input) > bandCountOf(arg.model)) =>
        /\ ret.err = Errorf("invalid band number")
        /\ ret.screen = screenEdit
        /\ ret.currentBand = arg.model.currentBand
        /\ ret.capacitorReading = arg.model.capacitorReading
        /\ ret.resistorReading = arg.model.resistorReading

=============================================================================
